---- MODULE Spec2Model ----
(***************************************************************************)
(* The campus / class / subject assignment graph of the LXP repository:    *)
(* the TeacherCampus, TeacherClassAssignment, TeacherSubjectAssignment and *)
(* StudentCampus tables and the service methods that write them            *)
(* (CampusTeacherService, TeacherCampusService, CampusStudentService and   *)
(* the class-creating endpoints of the campus router), the teacher data    *)
(* migration script and the success callback of the TeacherForm.           *)
(*                                                                         *)
(* A service call runs in a slot.  Every database statement of a call is   *)
(* one atomic step; none of the services opens a transaction except        *)
(* TeacherCampusService.removeTeacherFromCampus, whose three deletes are   *)
(* one step.  Checks that read only tables no operation of the model       *)
(* writes (User, TeacherProfile, Student, Campus, Subject, ClassGroup and  *)
(* the permission tables) are evaluated in the step with the call's first  *)
(* statement on a table the model writes.                                  *)
(*                                                                         *)
(* Columns no check reads (timestamps, isClassTeacher, the status of class *)
(* and subject assignments) are left out of the rows.                      *)
(***************************************************************************)
EXTENDS Integers, Sequences, FiniteSets, TLC

\* ------------------------------------------------------------------ bounds
MaxId == 4            \* ids ever handed out to rows of the assignment tables
MaxCampusRows == 2    \* a campus assignment is inserted among the first MaxCampusRows
MaxClasses == 1       \* Class rows ever created
MaxSubjectIds == 2    \* length of the subjectIds list of one call
MaxRuns == 2          \* runs of the teacher data migration script
NumSlots == 2         \* calls in flight together

\* ------------------------------------------------- read-only reference data
Teachers == {"T1", "T2"}               \* TeacherProfile rows
TeacherIds == Teachers \cup {"T0"}     \* T0: no such TeacherProfile
Students == {"P1"}                     \* Student rows
StudentIds == Students \cup {"P0"}
Campuses == {"C1", "C2"}               \* Campus rows
CampusIds == Campuses \cup {"C0"}
Subjects == {"S1", "S2"}               \* Subject rows
SubjectIds == Subjects
ClassGroups == {"G1", "G2"}            \* ClassGroup rows
ClassGroupIds == ClassGroups \cup {"G0"}
Names == {"A"}                         \* class names
Users == {"super", "admin", "guest"}
Statuses == {"ACTIVE", "INACTIVE", "ARCHIVED"}
Slots == 1..NumSlots
Ids == 1..(MaxId + 1)

\* classGroup.program.campusId
ProgramCampus(g) == IF g = "G1" THEN "C1" ELSE "C2"

\* user.userRoles.some(userRole => userRole.role.name === 'super-admin')
isSuperAdmin(u) == u = "super"

\* CampusUserService.hasPermission(userId, campusId, permission): the
\* campus-scoped grant.  "admin" holds the MANAGE and VIEW permissions at both
\* campuses; "super" holds the super-admin role and no campus-scoped grant;
\* "guest" holds nothing.
hasPermission(u, c, perm) == u = "admin" /\ c \in Campuses

\* ------------------------------------------------------------------- state
VARIABLES
  teacherCampus,              \* rows [id, teacherId, campusId, isPrimary, status]
  teacherClassAssignment,     \* rows [id, teacherCampusId, classId]
  teacherSubjectAssignment,   \* rows [id, teacherClassAssignmentId, subjectId]
  studentCampus,              \* rows [id, studentId, campusId, isPrimary, status]
  class,                      \* rows [id, campusId, classGroupId, name]
  nextId,                     \* ids handed out so far (gen_random_uuid, cuid)
  call,                       \* per slot: the call in flight, its locals, its result
  pre,                        \* per slot: the assignment tables when the call began
  last,                       \* the setPrimaryCampus call that returned last, where
                              \* repeated calls are followed (SpecSetPrimary)
  teacherAssignment,          \* legacy rows [teacherId, classId, isPrimary]
  teacherSubject,             \* legacy rows [teacherId, subjectId]
  migration,                  \* the migration script: its position and its locals
  form,                       \* the TeacherForm that was saved, and what came of it
  outbox                      \* mutations the form fired that no service call took up yet

vars == <<teacherCampus, teacherClassAssignment, teacherSubjectAssignment,
          studentCampus, class, nextId, call, pre, last,
          teacherAssignment, teacherSubject, migration, form, outbox>>

db == <<teacherCampus, teacherClassAssignment, teacherSubjectAssignment, studentCampus>>
NoSnapshot == <<>>

Idle == [op |-> "idle", pc |-> "idle", user |-> "-", person |-> "-", campus |-> "-",
         isPrimary |-> FALSE, status |-> "-", id |-> 0, classId |-> 0,
         subjectIds |-> <<>>, caId |-> 0, i |-> 0, result |-> "-",
         retPrimary |-> FALSE, includeInactive |-> FALSE, view |-> {},
         racing |-> FALSE, hadPrimary |-> FALSE]

\* No setPrimaryCampus call returned last.
NoCall == [op |-> "none", user |-> "-", person |-> "-", campus |-> "-", result |-> "-"]

SetPrimaryOps == {"CTS.setPrimaryCampus", "CSS.setPrimaryCampus"}

\* The migration script is not running and has not run.
NoMigration ==
  [pc |-> "idle", run |-> 0, teachers |-> {}, teacher |-> "-", campuses |-> {},
   tcId |-> 0, assignments |-> {}, caId |-> 0, subjects |-> {}, result |-> "-",
   firstResult |-> "-", first |-> NoSnapshot]

\* No form was saved.
NoForm ==
  [saved |-> FALSE, user |-> "-", teacherId |-> "-", campusIds |-> {},
   primaryCampusId |-> "-", teacherCampuses |-> {}, fired |-> 0, failed |-> FALSE]

Init ==
  /\ teacherCampus = {}
  /\ teacherClassAssignment = {}
  /\ teacherSubjectAssignment = {}
  /\ studentCampus = {}
  /\ class = {}
  /\ nextId = 0
  /\ call = [s \in Slots |-> Idle]
  /\ pre = [s \in Slots |-> NoSnapshot]
  /\ last = NoCall
  /\ teacherAssignment = {}
  /\ teacherSubject = {}
  /\ migration = NoMigration
  /\ form = NoForm
  /\ outbox = {}

\* ------------------------------------------------------- storage statements
\* Mutant: the unique index on (teacherId, campusId) is missing.
TeacherCampus_teacherId_campusId_key_missing(rows, t, c) == TRUE

\* CREATE UNIQUE INDEX "TeacherCampus_teacherId_campusId_key"
TeacherCampus_teacherId_campusId_key(rows, t, c) ==
  ~ \E r \in rows : r.teacherId = t /\ r.campusId = c

\* StudentCampus @@unique([studentId, campusId]) (studentId_campusId)
StudentCampus_studentId_campusId_key(rows, p, c) ==
  ~ \E r \in rows : r.studentId = p /\ r.campusId = c

\* CREATE UNIQUE INDEX "TeacherClassAssignment_teacherCampusId_classId_key"
TeacherClassAssignment_teacherCampusId_classId_key(rows, tcId, k) ==
  ~ \E r \in rows : r.teacherCampusId = tcId /\ r.classId = k

\* CREATE UNIQUE INDEX "TeacherSubjectAssignment_teacherClassAssignmentId_subjectId_key"
TeacherSubjectAssignment_teacherClassAssignmentId_subjectId_key(rows, caId, sub) ==
  ~ \E r \in rows : r.teacherClassAssignmentId = caId /\ r.subjectId = sub

\* "TeacherCampus"."id" TEXT NOT NULL, no DEFAULT: an INSERT that names no
\* "id" column violates the NOT NULL constraint.
TeacherCampus_id_default == FALSE

\* Mutant: the WHERE clause lost its "campusId" condition.
SelectTeacherCampus_anyCampus(t, c) ==
  {r \in teacherCampus : r.teacherId = t}

\* Mutant: the two parameters of the WHERE clause are swapped.
SelectTeacherCampus_swapped(t, c) ==
  {r \in teacherCampus : r.teacherId = c /\ r.campusId = t}

\* SELECT * FROM "TeacherCampus" WHERE "teacherId" = t AND "campusId" = c
SelectTeacherCampus(t, c) ==
  {r \in teacherCampus : r.teacherId = t /\ r.campusId = c}

\* Mutant: the WHERE clause lost its "teacherId" condition.
UnsetPrimaryTeacher_everyTeacher(rows, t) ==
  {IF r.isPrimary THEN [r EXCEPT !.isPrimary = FALSE] ELSE r : r \in rows}

\* Mutant: the UPDATE negates the primary flag of every row of the teacher.
UnsetPrimaryTeacher_negated(rows, t) ==
  {IF r.teacherId = t THEN [r EXCEPT !.isPrimary = ~r.isPrimary] ELSE r : r \in rows}

\* Mutant: the UPDATE unsets the primary flag of no row.
UnsetPrimaryTeacher_skipped(rows, t) == rows

\* UPDATE "TeacherCampus" SET "isPrimary" = false
\* WHERE "teacherId" = t AND "isPrimary" = true
UnsetPrimaryTeacher(rows, t) ==
  {IF r.teacherId = t /\ r.isPrimary THEN [r EXCEPT !.isPrimary = FALSE] ELSE r : r \in rows}

\* UPDATE "TeacherCampus" SET "isPrimary" = true
\* WHERE "teacherId" = t AND "campusId" = c
SetPrimaryTeacher(rows, t, c) ==
  {IF r.teacherId = t /\ r.campusId = c THEN [r EXCEPT !.isPrimary = TRUE] ELSE r : r \in rows}

\* Mutant: the UPDATE also takes the primary flag from a row that stops being
\* ACTIVE.
SetStatusTeacher_clearsPrimary(rows, t, c, st) ==
  {IF r.teacherId = t /\ r.campusId = c
   THEN [r EXCEPT !.status = st, !.isPrimary = r.isPrimary /\ st = "ACTIVE"]
   ELSE r : r \in rows}

\* UPDATE "TeacherCampus" SET "status" = st WHERE "teacherId" = t AND "campusId" = c
SetStatusTeacher(rows, t, c, st) ==
  {IF r.teacherId = t /\ r.campusId = c THEN [r EXCEPT !.status = st] ELSE r : r \in rows}

\* studentCampus.updateMany({where: {studentId, isPrimary: true}, data: {isPrimary: false}})
UnsetPrimaryStudent(rows, p) ==
  {IF r.studentId = p /\ r.isPrimary THEN [r EXCEPT !.isPrimary = FALSE] ELSE r : r \in rows}

\* Mutant: the foreign key of TeacherClassAssignment does not cascade.
CascadeClassAssignments_missing(tca, tc) == tca

\* ON DELETE CASCADE from TeacherCampus to TeacherClassAssignment
CascadeClassAssignments(tca, tc) ==
  {a \in tca : \E r \in tc : r.id = a.teacherCampusId}

\* ON DELETE CASCADE from TeacherClassAssignment to TeacherSubjectAssignment
CascadeSubjectAssignments(tsa, tca) ==
  {x \in tsa : \E a \in tca : a.id = x.teacherClassAssignmentId}

\* ------------------------------------------------------------ call plumbing
Quiescent == \A s \in Slots : call[s].pc = "idle"

\* The mutation request a call answers: endpoint and input.
Request(rec) ==
  [op |-> rec.op, teacherId |-> rec.person, campusId |-> rec.campus,
   isPrimary |-> rec.isPrimary]

\* A call enters slot s with its locals; the tables it may change are recorded.
\* If the form fired it, the request is no longer waiting.
Enter(s, rec) ==
  /\ call[s].pc = "idle"
  /\ call' = [call EXCEPT ![s] = rec]
  /\ pre' = [pre EXCEPT ![s] = db]
  /\ last' = IF /\ rec.op = last.op /\ rec.user = last.user
                /\ rec.person = last.person /\ rec.campus = last.campus
             THEN last ELSE NoCall
  /\ outbox' = outbox \ {Request(rec)}
  /\ UNCHANGED <<teacherAssignment, teacherSubject, migration, form>>

Goto(s, rec) ==
  /\ call' = [call EXCEPT ![s] = rec]
  /\ UNCHANGED <<pre, last, teacherAssignment, teacherSubject, migration, form, outbox>>

Finish(c, res) == [c EXCEPT !.pc = "done", !.result = res]

\* The caller takes the result (or the error); the slot is free again.
Return(s) ==
  /\ call[s].pc = "done"
  /\ call' = [call EXCEPT ![s] = Idle]
  /\ pre' = [pre EXCEPT ![s] = NoSnapshot]
  /\ last' = NoCall
  /\ UNCHANGED <<teacherCampus, teacherClassAssignment, teacherSubjectAssignment,
                 studentCampus, class, nextId,
                 teacherAssignment, teacherSubject, migration, form, outbox>>

\* The caller of a setPrimaryCampus call takes the result and is about to call
\* again: what the call was and what it returned is remembered.
ReturnOfSetPrimary(s) ==
  /\ call[s].pc = "done" /\ call[s].op \in SetPrimaryOps
  /\ call' = [call EXCEPT ![s] = Idle]
  /\ pre' = [pre EXCEPT ![s] = NoSnapshot]
  /\ last' = [op |-> call[s].op, user |-> call[s].user, person |-> call[s].person,
              campus |-> call[s].campus, result |-> call[s].result]
  /\ UNCHANGED <<teacherCampus, teacherClassAssignment, teacherSubjectAssignment,
                 studentCampus, class, nextId,
                 teacherAssignment, teacherSubject, migration, form, outbox>>

\* ------------------------------------------------ CampusTeacherService
\* What getCampusesForTeacher returns for the TeacherCampus rows `rows`.
CampusesForTeacher(rows, t, includeInactive) ==
  {[campusId |-> r.campusId, isPrimary |-> r.isPrimary, status |-> r.status] :
     r \in {x \in rows : x.teacherId = t /\ (includeInactive \/ x.status = "ACTIVE")}}

\* Mutant: the permission guard lets every user through.
MayAssignTeacher_anyUser(u, c) == TRUE

\* The permission guard of assignTeacherToCampus: super-admin first, then the
\* campus-scoped permission.
MayAssignTeacher(u, c) ==
  isSuperAdmin(u) \/ hasPermission(u, c, "MANAGE_CAMPUS_TEACHERS")

\* The permission guard of removeTeacherFromCampus and updateTeacherCampusStatus.
MayManageTeacher(u, c) == hasPermission(u, c, "MANAGE_CAMPUS_TEACHERS")

\* assignTeacherToCampus, up to and including the SELECT of the existing row.
CampusTeacherService_assignTeacherToCampus(s, u, c, t, isPrimary) ==
  LET rec == [Idle EXCEPT !.op = "CTS.assignTeacherToCampus", !.user = u,
                          !.person = t, !.campus = c, !.isPrimary = isPrimary]
  IN /\ Enter(s, IF ~MayAssignTeacher(u, c) THEN Finish(rec, "FORBIDDEN")
                 ELSE IF t \notin Teachers THEN Finish(rec, "NOT_FOUND")
                 ELSE IF c \notin Campuses THEN Finish(rec, "NOT_FOUND")
                 ELSE IF SelectTeacherCampus(t, c) # {} THEN Finish(rec, "CONFLICT")
                 ELSE [rec EXCEPT !.pc = IF isPrimary THEN "unset" ELSE "insert"])
     /\ UNCHANGED <<teacherCampus, teacherClassAssignment, teacherSubjectAssignment,
                    studentCampus, class, nextId>>

\* UPDATE ... SET "isPrimary" = false WHERE "teacherId" = t AND "isPrimary" = true
CampusTeacherService_assignTeacherToCampus_unset(s) ==
  /\ call[s].op = "CTS.assignTeacherToCampus" /\ call[s].pc = "unset"
  /\ teacherCampus' = UnsetPrimaryTeacher(teacherCampus, call[s].person)
  /\ Goto(s, [call[s] EXCEPT !.pc = "insert"])
  /\ UNCHANGED <<teacherClassAssignment, teacherSubjectAssignment, studentCampus,
                 class, nextId>>

\* INSERT INTO "TeacherCampus" ("teacherId", "campusId", "isPrimary", "status",
\* "joinedAt", "createdAt", "updatedAt"): the statement names no "id".
CampusTeacherService_assignTeacherToCampus_insert(s) ==
  /\ call[s].op = "CTS.assignTeacherToCampus" /\ call[s].pc = "insert"
  /\ IF TeacherCampus_id_default
        /\ TeacherCampus_teacherId_campusId_key(teacherCampus, call[s].person, call[s].campus)
     THEN /\ nextId < MaxCampusRows
          /\ nextId' = nextId + 1
          /\ teacherCampus' = teacherCampus \cup
               {[id |-> nextId + 1, teacherId |-> call[s].person,
                 campusId |-> call[s].campus, isPrimary |-> call[s].isPrimary,
                 status |-> "ACTIVE"]}
          /\ Goto(s, Finish(call[s], "OK"))
     ELSE /\ Goto(s, Finish(call[s], "INTERNAL_SERVER_ERROR"))
          /\ UNCHANGED <<teacherCampus, nextId>>
  /\ UNCHANGED <<teacherClassAssignment, teacherSubjectAssignment, studentCampus, class>>

\* removeTeacherFromCampus, up to and including the SELECT of the row.
CampusTeacherService_removeTeacherFromCampus(s, u, c, t) ==
  LET rec == [Idle EXCEPT !.op = "CTS.removeTeacherFromCampus", !.user = u,
                          !.person = t, !.campus = c]
  IN /\ Enter(s, IF ~MayManageTeacher(u, c) THEN Finish(rec, "FORBIDDEN")
                 ELSE IF SelectTeacherCampus(t, c) = {} THEN Finish(rec, "NOT_FOUND")
                 ELSE [rec EXCEPT !.pc = "delete"])
     /\ UNCHANGED <<teacherCampus, teacherClassAssignment, teacherSubjectAssignment,
                    studentCampus, class, nextId>>

\* DELETE FROM "TeacherCampus" WHERE "teacherId" = t AND "campusId" = c, with
\* the cascades of the two foreign keys.
CampusTeacherService_removeTeacherFromCampus_delete(s) ==
  /\ call[s].op = "CTS.removeTeacherFromCampus" /\ call[s].pc = "delete"
  /\ LET tc == teacherCampus \ SelectTeacherCampus(call[s].person, call[s].campus)
         tca == CascadeClassAssignments(teacherClassAssignment, tc)
     IN /\ teacherCampus' = tc
        /\ teacherClassAssignment' = tca
        /\ teacherSubjectAssignment' = CascadeSubjectAssignments(teacherSubjectAssignment, tca)
  /\ Goto(s, Finish(call[s], "OK"))
  /\ UNCHANGED <<studentCampus, class, nextId>>

\* updateTeacherCampusStatus, up to and including the SELECT of the row.
CampusTeacherService_updateTeacherCampusStatus(s, u, c, t, st) ==
  LET rec == [Idle EXCEPT !.op = "CTS.updateTeacherCampusStatus", !.user = u,
                          !.person = t, !.campus = c, !.status = st]
      rel == SelectTeacherCampus(t, c)
  IN /\ Enter(s, IF ~MayManageTeacher(u, c) THEN Finish(rec, "FORBIDDEN")
                 ELSE IF rel = {} THEN Finish(rec, "NOT_FOUND")
                 ELSE [rec EXCEPT !.pc = "update",
                                  !.retPrimary = (CHOOSE r \in rel : TRUE).isPrimary])
     /\ UNCHANGED <<teacherCampus, teacherClassAssignment, teacherSubjectAssignment,
                    studentCampus, class, nextId>>

\* UPDATE "TeacherCampus" SET "status" = st WHERE "teacherId" = t AND "campusId" = c
CampusTeacherService_updateTeacherCampusStatus_update(s) ==
  /\ call[s].op = "CTS.updateTeacherCampusStatus" /\ call[s].pc = "update"
  /\ teacherCampus' = SetStatusTeacher(teacherCampus, call[s].person, call[s].campus,
                                       call[s].status)
  /\ Goto(s, Finish(call[s], "OK"))
  /\ UNCHANGED <<teacherClassAssignment, teacherSubjectAssignment, studentCampus,
                 class, nextId>>

\* setPrimaryCampus, up to and including the SELECT of the row.  No permission
\* is asked.
CampusTeacherService_setPrimaryCampus(s, u, t, c) ==
  LET rec == [Idle EXCEPT !.op = "CTS.setPrimaryCampus", !.person = t, !.campus = c,
                          !.hadPrimary = \E r \in teacherCampus :
                                            r.teacherId = t /\ r.isPrimary]
  IN /\ Enter(s, IF SelectTeacherCampus(t, c) = {} THEN Finish(rec, "NOT_FOUND")
                 ELSE [rec EXCEPT !.pc = "unset"])
     /\ UNCHANGED <<teacherCampus, teacherClassAssignment, teacherSubjectAssignment,
                    studentCampus, class, nextId>>

\* UPDATE ... SET "isPrimary" = false WHERE "teacherId" = t AND "isPrimary" = true
CampusTeacherService_setPrimaryCampus_unset(s) ==
  /\ call[s].op = "CTS.setPrimaryCampus" /\ call[s].pc = "unset"
  /\ teacherCampus' = UnsetPrimaryTeacher(teacherCampus, call[s].person)
  /\ Goto(s, [call[s] EXCEPT !.pc = "set"])
  /\ UNCHANGED <<teacherClassAssignment, teacherSubjectAssignment, studentCampus,
                 class, nextId>>

\* UPDATE ... SET "isPrimary" = true WHERE "teacherId" = t AND "campusId" = c;
\* the method then returns isPrimary: true whatever the UPDATE matched.
CampusTeacherService_setPrimaryCampus_set(s) ==
  /\ call[s].op = "CTS.setPrimaryCampus" /\ call[s].pc = "set"
  /\ teacherCampus' = SetPrimaryTeacher(teacherCampus, call[s].person, call[s].campus)
  /\ Goto(s, [Finish(call[s], "OK") EXCEPT !.retPrimary = TRUE])
  /\ UNCHANGED <<teacherClassAssignment, teacherSubjectAssignment, studentCampus,
                 class, nextId>>

\* A setPrimaryCampus call for teacher t that started with a primary row and
\* has statements left to run.
SetPrimaryInFlight(w, t) ==
  /\ call[w].op = "CTS.setPrimaryCampus"
  /\ call[w].pc \in {"unset", "set"}
  /\ call[w].person = t
  /\ call[w].hadPrimary

\* getCampusesForTeacher: one SELECT.
CampusTeacherService_getCampusesForTeacher(s, u, t, includeInactive) ==
  LET rec == [Idle EXCEPT !.op = "CTS.getCampusesForTeacher", !.person = t,
                          !.includeInactive = includeInactive]
  IN /\ Enter(s, IF t \notin Teachers THEN Finish(rec, "NOT_FOUND")
                 ELSE [Finish(rec, "OK") EXCEPT
                         !.view = CampusesForTeacher(teacherCampus, t, includeInactive),
                         !.racing = \E w \in Slots \ {s} : SetPrimaryInFlight(w, t)])
     /\ UNCHANGED <<teacherCampus, teacherClassAssignment, teacherSubjectAssignment,
                    studentCampus, class, nextId>>

\* What getTeachersForCampus returns for the TeacherCampus rows `rows`.
TeachersForCampus(rows, c, includeInactive) ==
  {[teacherId |-> r.teacherId, isPrimary |-> r.isPrimary, status |-> r.status] :
     r \in {x \in rows : x.campusId = c /\ (includeInactive \/ x.status = "ACTIVE")}}

\* The permission guard of getTeachersForCampus.
MayViewCampus(u, c) == hasPermission(u, c, "VIEW_CAMPUS_CLASSES")

\* getTeachersForCampus: the permission check, the campus lookup and the SELECT
\* of the campus's rows.
CampusTeacherService_getTeachersForCampus(s, u, c, includeInactive) ==
  LET rec == [Idle EXCEPT !.op = "CTS.getTeachersForCampus", !.user = u, !.campus = c,
                          !.includeInactive = includeInactive]
  IN /\ Enter(s, IF ~MayViewCampus(u, c) THEN Finish(rec, "FORBIDDEN")
                 ELSE IF c \notin Campuses THEN Finish(rec, "NOT_FOUND")
                 ELSE [Finish(rec, "OK") EXCEPT
                         !.view = TeachersForCampus(teacherCampus, c, includeInactive)])
     /\ UNCHANGED <<teacherCampus, teacherClassAssignment, teacherSubjectAssignment,
                    studentCampus, class, nextId>>

\* ------------------------------------------------ TeacherCampusService
\* assignTeacherToCampus(data), up to and including the SELECT of the existing
\* row.  The method asks no permission.
TeacherCampusService_assignTeacherToCampus(s, t, c, isPrimary, st) ==
  LET rec == [Idle EXCEPT !.op = "TCS.assignTeacherToCampus", !.person = t,
                          !.campus = c, !.isPrimary = isPrimary, !.status = st]
  IN /\ Enter(s, IF t \notin Teachers THEN Finish(rec, "NOT_FOUND")
                 ELSE IF c \notin Campuses THEN Finish(rec, "NOT_FOUND")
                 ELSE IF SelectTeacherCampus(t, c) # {} THEN Finish(rec, "CONFLICT")
                 ELSE [rec EXCEPT !.pc = IF isPrimary THEN "unset" ELSE "insert"])
     /\ UNCHANGED <<teacherCampus, teacherClassAssignment, teacherSubjectAssignment,
                    studentCampus, class, nextId>>

\* UPDATE ... SET "isPrimary" = false WHERE "teacherId" = t AND "isPrimary" = true
TeacherCampusService_assignTeacherToCampus_unset(s) ==
  /\ call[s].op = "TCS.assignTeacherToCampus" /\ call[s].pc = "unset"
  /\ teacherCampus' = UnsetPrimaryTeacher(teacherCampus, call[s].person)
  /\ Goto(s, [call[s] EXCEPT !.pc = "insert"])
  /\ UNCHANGED <<teacherClassAssignment, teacherSubjectAssignment, studentCampus,
                 class, nextId>>

\* INSERT INTO "TeacherCampus" ("id", ...) VALUES (gen_random_uuid(), ...); the
\* unique index rejects a second row of the pair.
TeacherCampusService_assignTeacherToCampus_insert(s) ==
  /\ call[s].op = "TCS.assignTeacherToCampus" /\ call[s].pc = "insert"
  /\ IF TeacherCampus_teacherId_campusId_key(teacherCampus, call[s].person, call[s].campus)
     THEN /\ nextId < MaxCampusRows
          /\ nextId' = nextId + 1
          /\ teacherCampus' = teacherCampus \cup
               {[id |-> nextId + 1, teacherId |-> call[s].person,
                 campusId |-> call[s].campus, isPrimary |-> call[s].isPrimary,
                 status |-> call[s].status]}
          /\ Goto(s, [Finish(call[s], "OK") EXCEPT !.id = nextId + 1])
     ELSE /\ Goto(s, Finish(call[s], "INTERNAL_SERVER_ERROR"))
          /\ UNCHANGED <<teacherCampus, nextId>>
  /\ UNCHANGED <<teacherClassAssignment, teacherSubjectAssignment, studentCampus, class>>

\* assignTeacherToClass(data): SELECT the TeacherCampus row by id.
TeacherCampusService_assignTeacherToClass(s, tcId, k, subjectIds) ==
  LET rec == [Idle EXCEPT !.op = "TCS.assignTeacherToClass", !.id = tcId,
                          !.classId = k, !.subjectIds = subjectIds]
      found == {r \in teacherCampus : r.id = tcId}
  IN /\ Enter(s, IF found = {} THEN Finish(rec, "NOT_FOUND")
                 ELSE [rec EXCEPT !.pc = "class",
                                  !.campus = (CHOOSE r \in found : TRUE).campusId])
     /\ UNCHANGED <<teacherCampus, teacherClassAssignment, teacherSubjectAssignment,
                    studentCampus, class, nextId>>

\* class.findUnique with classGroup.program, and the campus comparison:
\* class_.classGroup.program.campusId against teacherCampus.campusId.
ClassCampusMatches(k, campusId) ==
  ProgramCampus(k.classGroupId) = campusId

TeacherCampusService_assignTeacherToClass_class(s) ==
  /\ call[s].op = "TCS.assignTeacherToClass" /\ call[s].pc = "class"
  /\ LET found == {k \in class : k.id = call[s].classId}
     IN Goto(s, IF found = {} THEN Finish(call[s], "NOT_FOUND")
                ELSE IF ~ClassCampusMatches(CHOOSE k \in found : TRUE, call[s].campus)
                     THEN Finish(call[s], "BAD_REQUEST")
                ELSE [call[s] EXCEPT !.pc = "insertClass"])
  /\ UNCHANGED <<teacherCampus, teacherClassAssignment, teacherSubjectAssignment,
                 studentCampus, class, nextId>>

\* INSERT INTO "TeacherClassAssignment": the foreign key to TeacherCampus and
\* the unique index on (teacherCampusId, classId) can reject it.
TeacherCampusService_assignTeacherToClass_insertClass(s) ==
  /\ call[s].op = "TCS.assignTeacherToClass" /\ call[s].pc = "insertClass"
  /\ IF /\ \E r \in teacherCampus : r.id = call[s].id
        /\ TeacherClassAssignment_teacherCampusId_classId_key(
             teacherClassAssignment, call[s].id, call[s].classId)
     THEN /\ nextId < MaxId
          /\ nextId' = nextId + 1
          /\ teacherClassAssignment' = teacherClassAssignment \cup
               {[id |-> nextId + 1, teacherCampusId |-> call[s].id,
                 classId |-> call[s].classId]}
          /\ Goto(s, IF Len(call[s].subjectIds) > 0
                     THEN [call[s] EXCEPT !.pc = "insertSubject", !.caId = nextId + 1,
                                          !.i = 1]
                     ELSE [Finish(call[s], "OK") EXCEPT !.caId = nextId + 1])
     ELSE /\ Goto(s, Finish(call[s], "INTERNAL_SERVER_ERROR"))
          /\ UNCHANGED <<teacherClassAssignment, nextId>>
  /\ UNCHANGED <<teacherCampus, teacherSubjectAssignment, studentCampus, class>>

\* One turn of the for loop: INSERT INTO "TeacherSubjectAssignment" for
\* subjectIds[i].  The foreign keys (class assignment, subject) and the unique
\* index on (teacherClassAssignmentId, subjectId) can reject it; the error
\* leaves the loop and the method with the rows inserted so far in place.
TeacherCampusService_assignTeacherToClass_insertSubject(s) ==
  /\ call[s].op = "TCS.assignTeacherToClass" /\ call[s].pc = "insertSubject"
  /\ LET sub == call[s].subjectIds[call[s].i]
     IN IF /\ sub \in Subjects
           /\ \E a \in teacherClassAssignment : a.id = call[s].caId
           /\ TeacherSubjectAssignment_teacherClassAssignmentId_subjectId_key(
                teacherSubjectAssignment, call[s].caId, sub)
        THEN /\ nextId < MaxId
             /\ nextId' = nextId + 1
             /\ teacherSubjectAssignment' = teacherSubjectAssignment \cup
                  {[id |-> nextId + 1, teacherClassAssignmentId |-> call[s].caId,
                    subjectId |-> sub]}
             /\ Goto(s, IF call[s].i < Len(call[s].subjectIds)
                        THEN [call[s] EXCEPT !.i = call[s].i + 1]
                        ELSE Finish(call[s], "OK"))
        ELSE /\ Goto(s, Finish(call[s], "INTERNAL_SERVER_ERROR"))
             /\ UNCHANGED <<teacherSubjectAssignment, nextId>>
  /\ UNCHANGED <<teacherCampus, teacherClassAssignment, studentCampus, class>>

\* updateAssignmentStatus(teacherCampusId, status): one UPDATE ... RETURNING.
TeacherCampusService_updateAssignmentStatus(s, tcId, st) ==
  LET rec == [Idle EXCEPT !.op = "TCS.updateAssignmentStatus", !.id = tcId, !.status = st]
      found == {r \in teacherCampus : r.id = tcId}
  IN /\ Enter(s, IF found = {} THEN Finish(rec, "NOT_FOUND") ELSE Finish(rec, "OK"))
     /\ teacherCampus' = {IF r.id = tcId THEN [r EXCEPT !.status = st] ELSE r :
                            r \in teacherCampus}
     /\ UNCHANGED <<teacherClassAssignment, teacherSubjectAssignment, studentCampus,
                    class, nextId>>

\* removeTeacherFromCampus(teacherId, campusId): SELECT the id of the row.
TeacherCampusService_removeTeacherFromCampus(s, t, c) ==
  LET rec == [Idle EXCEPT !.op = "TCS.removeTeacherFromCampus", !.person = t, !.campus = c]
      found == SelectTeacherCampus(t, c)
  IN /\ Enter(s, IF found = {} THEN Finish(rec, "NOT_FOUND")
                 ELSE [rec EXCEPT !.pc = "transaction",
                                  !.id = (CHOOSE r \in found : TRUE).id])
     /\ UNCHANGED <<teacherCampus, teacherClassAssignment, teacherSubjectAssignment,
                    studentCampus, class, nextId>>

\* Mutant: the transaction also promotes another assignment of the teacher
\* when the deleted one was primary.
DeleteAssignmentTree_reelect(tcId) ==
  LET gone == {a \in teacherClassAssignment : a.teacherCampusId = tcId}
      del  == {r \in teacherCampus : r.id = tcId}
      rest == {r \in teacherCampus : r.id # tcId /\ \E d \in del : d.teacherId = r.teacherId}
  IN /\ teacherSubjectAssignment' =
          {x \in teacherSubjectAssignment :
             ~ \E a \in gone : a.id = x.teacherClassAssignmentId}
     /\ teacherClassAssignment' = teacherClassAssignment \ gone
     /\ teacherCampus' =
          {IF r \in rest /\ \E d \in del : d.isPrimary
           THEN [r EXCEPT !.isPrimary = TRUE] ELSE r :
             r \in {q \in teacherCampus : q.id # tcId}}

\* The three DELETE statements of the $transaction, by assignment.id: subject
\* assignments, class assignments, the TeacherCampus row.
DeleteAssignmentTree(tcId) ==
  LET gone == {a \in teacherClassAssignment : a.teacherCampusId = tcId}
  IN /\ teacherSubjectAssignment' =
          {x \in teacherSubjectAssignment :
             ~ \E a \in gone : a.id = x.teacherClassAssignmentId}
     /\ teacherClassAssignment' = teacherClassAssignment \ gone
     /\ teacherCampus' = {r \in teacherCampus : r.id # tcId}

TeacherCampusService_removeTeacherFromCampus_transaction(s) ==
  /\ call[s].op = "TCS.removeTeacherFromCampus" /\ call[s].pc = "transaction"
  /\ DeleteAssignmentTree(call[s].id)
  /\ Goto(s, Finish(call[s], "OK"))
  /\ UNCHANGED <<studentCampus, class, nextId>>

\* ------------------------------------------------ CampusStudentService
MayManageStudent(u, c) == hasPermission(u, c, "MANAGE_CAMPUS_STUDENTS")

\* studentCampus.findUnique({where: {studentId_campusId: {studentId, campusId}}})
SelectStudentCampus(p, c) ==
  {r \in studentCampus : r.studentId = p /\ r.campusId = c}

\* assignStudentToCampus, up to and including the findUnique of the existing row.
CampusStudentService_assignStudentToCampus(s, u, c, p, isPrimary) ==
  LET rec == [Idle EXCEPT !.op = "CSS.assignStudentToCampus", !.user = u,
                          !.person = p, !.campus = c, !.isPrimary = isPrimary]
  IN /\ Enter(s, IF ~MayManageStudent(u, c) THEN Finish(rec, "FORBIDDEN")
                 ELSE IF p \notin Students THEN Finish(rec, "NOT_FOUND")
                 ELSE IF c \notin Campuses THEN Finish(rec, "NOT_FOUND")
                 ELSE IF SelectStudentCampus(p, c) # {} THEN Finish(rec, "CONFLICT")
                 ELSE [rec EXCEPT !.pc = IF isPrimary THEN "unset" ELSE "create"])
     /\ UNCHANGED <<teacherCampus, teacherClassAssignment, teacherSubjectAssignment,
                    studentCampus, class, nextId>>

\* studentCampus.updateMany: unset the other primary assignments
CampusStudentService_assignStudentToCampus_unset(s) ==
  /\ call[s].op = "CSS.assignStudentToCampus" /\ call[s].pc = "unset"
  /\ studentCampus' = UnsetPrimaryStudent(studentCampus, call[s].person)
  /\ Goto(s, [call[s] EXCEPT !.pc = "create"])
  /\ UNCHANGED <<teacherCampus, teacherClassAssignment, teacherSubjectAssignment,
                 class, nextId>>

\* studentCampus.create; a unique-constraint error is caught and rethrown as
\* INTERNAL_SERVER_ERROR.
CampusStudentService_assignStudentToCampus_create(s) ==
  /\ call[s].op = "CSS.assignStudentToCampus" /\ call[s].pc = "create"
  /\ IF StudentCampus_studentId_campusId_key(studentCampus, call[s].person, call[s].campus)
     THEN /\ nextId < MaxCampusRows
          /\ nextId' = nextId + 1
          /\ studentCampus' = studentCampus \cup
               {[id |-> nextId + 1, studentId |-> call[s].person,
                 campusId |-> call[s].campus, isPrimary |-> call[s].isPrimary,
                 status |-> "ACTIVE"]}
          /\ Goto(s, [Finish(call[s], "OK") EXCEPT !.id = nextId + 1])
     ELSE /\ Goto(s, Finish(call[s], "INTERNAL_SERVER_ERROR"))
          /\ UNCHANGED <<studentCampus, nextId>>
  /\ UNCHANGED <<teacherCampus, teacherClassAssignment, teacherSubjectAssignment, class>>

\* removeStudentFromCampus: the permission check and one studentCampus.delete,
\* whose record-not-found error is caught and rethrown as INTERNAL_SERVER_ERROR.
CampusStudentService_removeStudentFromCampus(s, u, c, p) ==
  LET rec == [Idle EXCEPT !.op = "CSS.removeStudentFromCampus", !.user = u,
                          !.person = p, !.campus = c]
      allowed == MayManageStudent(u, c)
  IN /\ Enter(s, IF ~allowed THEN Finish(rec, "FORBIDDEN")
                 ELSE IF SelectStudentCampus(p, c) = {}
                      THEN Finish(rec, "INTERNAL_SERVER_ERROR")
                 ELSE Finish(rec, "OK"))
     /\ studentCampus' = IF allowed THEN studentCampus \ SelectStudentCampus(p, c)
                         ELSE studentCampus
     /\ UNCHANGED <<teacherCampus, teacherClassAssignment, teacherSubjectAssignment,
                    class, nextId>>

\* updateStudentCampusStatus: the permission check and one studentCampus.update.
CampusStudentService_updateStudentCampusStatus(s, u, c, p, st) ==
  LET rec == [Idle EXCEPT !.op = "CSS.updateStudentCampusStatus", !.user = u,
                          !.person = p, !.campus = c, !.status = st]
      allowed == MayManageStudent(u, c)
  IN /\ Enter(s, IF ~allowed THEN Finish(rec, "FORBIDDEN")
                 ELSE IF SelectStudentCampus(p, c) = {}
                      THEN Finish(rec, "INTERNAL_SERVER_ERROR")
                 ELSE Finish(rec, "OK"))
     /\ studentCampus' =
          IF allowed
          THEN {IF r.studentId = p /\ r.campusId = c THEN [r EXCEPT !.status = st] ELSE r :
                  r \in studentCampus}
          ELSE studentCampus
     /\ UNCHANGED <<teacherCampus, teacherClassAssignment, teacherSubjectAssignment,
                    class, nextId>>

\* What getStudentsForCampus returns for the StudentCampus rows `rows`.
StudentsForCampus(rows, c, includeInactive) ==
  {[studentId |-> r.studentId, isPrimary |-> r.isPrimary, status |-> r.status] :
     r \in {x \in rows : x.campusId = c /\ (includeInactive \/ x.status = "ACTIVE")}}

\* getStudentsForCampus: the permission check and one student.findMany.
CampusStudentService_getStudentsForCampus(s, u, c, includeInactive) ==
  LET rec == [Idle EXCEPT !.op = "CSS.getStudentsForCampus", !.user = u, !.campus = c,
                          !.includeInactive = includeInactive]
  IN /\ Enter(s, IF ~MayViewCampus(u, c) THEN Finish(rec, "FORBIDDEN")
                 ELSE [Finish(rec, "OK") EXCEPT
                         !.view = StudentsForCampus(studentCampus, c, includeInactive)])
     /\ UNCHANGED <<teacherCampus, teacherClassAssignment, teacherSubjectAssignment,
                    studentCampus, class, nextId>>

\* setPrimaryCampus of a student: the permission check and the updateMany that
\* unsets the primary assignments.  The row of (studentId, campusId) is not
\* looked up first.
CampusStudentService_setPrimaryCampus(s, u, p, c) ==
  LET rec == [Idle EXCEPT !.op = "CSS.setPrimaryCampus", !.user = u,
                          !.person = p, !.campus = c]
      allowed == MayManageStudent(u, c)
  IN /\ Enter(s, IF ~allowed THEN Finish(rec, "FORBIDDEN") ELSE [rec EXCEPT !.pc = "update"])
     /\ studentCampus' = IF allowed THEN UnsetPrimaryStudent(studentCampus, p)
                         ELSE studentCampus
     /\ UNCHANGED <<teacherCampus, teacherClassAssignment, teacherSubjectAssignment,
                    class, nextId>>

\* studentCampus.update({where: {studentId_campusId}, data: {isPrimary: true}});
\* the record-not-found error is caught and rethrown as INTERNAL_SERVER_ERROR.
CampusStudentService_setPrimaryCampus_update(s) ==
  /\ call[s].op = "CSS.setPrimaryCampus" /\ call[s].pc = "update"
  /\ IF SelectStudentCampus(call[s].person, call[s].campus) = {}
     THEN /\ Goto(s, Finish(call[s], "INTERNAL_SERVER_ERROR"))
          /\ UNCHANGED studentCampus
     ELSE /\ studentCampus' =
               {IF r.studentId = call[s].person /\ r.campusId = call[s].campus
                THEN [r EXCEPT !.isPrimary = TRUE] ELSE r : r \in studentCampus}
          /\ Goto(s, [Finish(call[s], "OK") EXCEPT !.retPrimary = TRUE])
  /\ UNCHANGED <<teacherCampus, teacherClassAssignment, teacherSubjectAssignment,
                 class, nextId>>

\* ------------------------------------------------ campus router: classes
\* The Class row both endpoints create: campusId is the input's campusId,
\* whatever the campus of the class group's program.
NewClass(c, g, n) ==
  [id |-> Cardinality(class) + 1, campusId |-> c, classGroupId |-> g, name |-> n]

\* createClass: findFirst by (name, classGroupId), classGroup.findUnique.
createClass(s, c, g, n) ==
  LET rec == [Idle EXCEPT !.op = "createClass", !.campus = c, !.person = g, !.status = n]
  IN /\ Cardinality(class) < MaxClasses
     /\ Enter(s, IF \E k \in class : k.name = n /\ k.classGroupId = g
                 THEN Finish(rec, "CONFLICT")
                 ELSE IF g \notin ClassGroups THEN Finish(rec, "NOT_FOUND")
                 ELSE [rec EXCEPT !.pc = "create"])
     /\ UNCHANGED <<teacherCampus, teacherClassAssignment, teacherSubjectAssignment,
                    studentCampus, class, nextId>>

\* class.create; a foreign-key error (no such campus) is caught and rethrown.
createClass_create(s) ==
  /\ call[s].op = "createClass" /\ call[s].pc = "create"
  /\ IF call[s].campus \in Campuses
     THEN /\ Cardinality(class) < MaxClasses
          /\ class' = class \cup {NewClass(call[s].campus, call[s].person, call[s].status)}
          /\ Goto(s, [Finish(call[s], "OK") EXCEPT !.classId = Cardinality(class) + 1])
     ELSE /\ Goto(s, Finish(call[s], "INTERNAL_SERVER_ERROR"))
          /\ UNCHANGED class
  /\ UNCHANGED <<teacherCampus, teacherClassAssignment, teacherSubjectAssignment,
                 studentCampus, nextId>>

\* createClassFromTemplate: classGroup.findUnique, class.create.
createClassFromTemplate(s, c, g, n) ==
  LET rec == [Idle EXCEPT !.op = "createClassFromTemplate", !.campus = c, !.person = g,
                          !.status = n]
      ok == g \in ClassGroups /\ c \in Campuses
  IN /\ Cardinality(class) < MaxClasses
     /\ Enter(s, IF g \notin ClassGroups THEN Finish(rec, "NOT_FOUND")
                 ELSE IF c \notin Campuses THEN Finish(rec, "INTERNAL_SERVER_ERROR")
                 ELSE [Finish(rec, "OK") EXCEPT !.classId = Cardinality(class) + 1])
     /\ class' = IF ok THEN class \cup {NewClass(c, g, n)} ELSE class
     /\ UNCHANGED <<teacherCampus, teacherClassAssignment, teacherSubjectAssignment,
                    studentCampus, nextId>>

\* ------------------------------------------------ scripts/migrate-teacher-data.ts
\* Classes of the legacy data, and the class group of each; the campus of a
\* legacy assignment is the campus of the program of its class's group.
LegacyClasses == {"K1", "K2", "K3"}
LegacyClassGroup(k) == IF k = "K2" THEN "G2" ELSE "G1"
LegacyCampus(a) == ProgramCampus(LegacyClassGroup(a.classId))

\* The legacy TeacherAssignment tables the script may find: T1 with up to three
\* class assignments over two campuses, T2 with up to one, each primary or not.
LegacyRows ==
  {[teacherId |-> "T1", classId |-> k, isPrimary |-> b] : k \in LegacyClasses, b \in BOOLEAN}
  \cup {[teacherId |-> "T2", classId |-> "K1", isPrimary |-> b] : b \in BOOLEAN}
LegacyTables ==
  {A \in SUBSET LegacyRows :
     \A a1, a2 \in A : a1.teacherId = a2.teacherId /\ a1.classId = a2.classId => a1 = a2}
LegacySubjects == {{}, {[teacherId |-> "T1", subjectId |-> "S1"]}}

InitMigration ==
  /\ teacherCampus = {}
  /\ teacherClassAssignment = {}
  /\ teacherSubjectAssignment = {}
  /\ studentCampus = {}
  /\ class = {}
  /\ nextId = 0
  /\ call = [s \in Slots |-> Idle]
  /\ pre = [s \in Slots |-> NoSnapshot]
  /\ last = NoCall
  /\ teacherAssignment \in LegacyTables
  /\ teacherSubject \in LegacySubjects
  /\ migration = NoMigration
  /\ form = NoForm
  /\ outbox = {}

\* campusAssignments.some(a => a.isPrimary)
MigratedPrimary(as) == \E a \in as : a.isPrimary

\* The script after a statement: the innermost loop that has work left goes
\* on; with no teacher left the run is over.
MigrationContinues(m, tc, ca, sa) ==
  IF m.subjects # {} THEN [m EXCEPT !.pc = "subject"]
  ELSE IF m.assignments # {} THEN [m EXCEPT !.pc = "class"]
  ELSE IF m.campuses # {} THEN [m EXCEPT !.pc = "campus"]
  ELSE IF m.teachers # {} THEN [m EXCEPT !.pc = "teacher"]
  ELSE [m EXCEPT !.pc = "done", !.result = "OK",
                 !.firstResult = IF m.run = 1 THEN "OK" ELSE @,
                 !.first = IF m.run = 1 THEN <<tc, ca, sa>> ELSE @]

\* A statement threw: the catch block logs and rethrows, the run is over.  No
\* transaction is open, so the rows written so far stay.
MigrationThrows(m, tc, ca, sa) ==
  [m EXCEPT !.pc = "done", !.result = "ERROR",
            !.firstResult = IF m.run = 1 THEN "ERROR" ELSE @,
            !.first = IF m.run = 1 THEN <<tc, ca, sa>> ELSE @]

\* A run of the script begins: SELECT of the teacher profiles.
migrateTeacherData ==
  /\ migration.pc \in {"idle", "done"} /\ migration.run < MaxRuns
  /\ migration' = [migration EXCEPT !.pc = "teacher", !.run = @ + 1,
                                    !.teachers = Teachers, !.result = "-"]
  /\ UNCHANGED <<teacherCampus, teacherClassAssignment, teacherSubjectAssignment,
                 studentCampus, class, nextId, call, pre, last,
                 teacherAssignment, teacherSubject, form, outbox>>

\* The next teacher: SELECT of the teacher's legacy assignments, grouped by
\* campus.  The order of the rows of a SELECT without ORDER BY is any.
migrateTeacherData_assignments ==
  /\ migration.pc = "teacher"
  /\ \E t \in migration.teachers :
       LET as == {a \in teacherAssignment : a.teacherId = t}
       IN migration' =
            MigrationContinues(
              [migration EXCEPT !.teacher = t, !.teachers = @ \ {t},
                                !.campuses = {LegacyCampus(a) : a \in as}],
              teacherCampus, teacherClassAssignment, teacherSubjectAssignment)
  /\ UNCHANGED <<teacherCampus, teacherClassAssignment, teacherSubjectAssignment,
                 studentCampus, class, nextId, call, pre, last,
                 teacherAssignment, teacherSubject, form, outbox>>

\* INSERT INTO "TeacherCampus" ... RETURNING id, for the next campus.
migrateTeacherData_insertCampus ==
  /\ migration.pc = "campus"
  /\ \E c \in migration.campuses :
       LET t == migration.teacher
           as == {a \in teacherAssignment : a.teacherId = t /\ LegacyCampus(a) = c}
           row == [id |-> nextId + 1, teacherId |-> t, campusId |-> c,
                   isPrimary |-> MigratedPrimary(as), status |-> "ACTIVE"]
           m == [migration EXCEPT !.campuses = @ \ {c}, !.tcId = nextId + 1,
                                  !.assignments = as]
       IN IF TeacherCampus_teacherId_campusId_key(teacherCampus, t, c)
          THEN /\ teacherCampus' = teacherCampus \cup {row}
               /\ nextId' = nextId + 1
               /\ migration' = MigrationContinues(m, teacherCampus', teacherClassAssignment,
                                                  teacherSubjectAssignment)
          ELSE /\ migration' = MigrationThrows(migration, teacherCampus,
                                  teacherClassAssignment, teacherSubjectAssignment)
               /\ UNCHANGED <<teacherCampus, nextId>>
  /\ UNCHANGED <<teacherClassAssignment, teacherSubjectAssignment,
                 studentCampus, class, call, pre, last,
                 teacherAssignment, teacherSubject, form, outbox>>

\* INSERT INTO "TeacherClassAssignment" ... RETURNING id, for the next legacy
\* assignment of the campus; subjectIds is the array_agg of the teacher's
\* legacy subjects, its NULL skipped.
migrateTeacherData_insertClass ==
  /\ migration.pc = "class"
  /\ \E a \in migration.assignments :
       LET row == [id |-> nextId + 1, teacherCampusId |-> migration.tcId,
                   classId |-> a.classId]
           m == [migration EXCEPT
                   !.assignments = @ \ {a}, !.caId = nextId + 1,
                   !.subjects = {x.subjectId : x \in {y \in teacherSubject :
                                                        y.teacherId = a.teacherId}}]
       IN IF TeacherClassAssignment_teacherCampusId_classId_key(
               teacherClassAssignment, migration.tcId, a.classId)
          THEN /\ teacherClassAssignment' = teacherClassAssignment \cup {row}
               /\ nextId' = nextId + 1
               /\ migration' = MigrationContinues(m, teacherCampus, teacherClassAssignment',
                                                  teacherSubjectAssignment)
          ELSE /\ migration' = MigrationThrows(migration, teacherCampus,
                                  teacherClassAssignment, teacherSubjectAssignment)
               /\ UNCHANGED <<teacherClassAssignment, nextId>>
  /\ UNCHANGED <<teacherCampus, teacherSubjectAssignment,
                 studentCampus, class, call, pre, last,
                 teacherAssignment, teacherSubject, form, outbox>>

\* INSERT INTO "TeacherSubjectAssignment", for the next subject id.
migrateTeacherData_insertSubject ==
  /\ migration.pc = "subject"
  /\ \E x \in migration.subjects :
       LET row == [id |-> nextId + 1, teacherClassAssignmentId |-> migration.caId,
                   subjectId |-> x]
           m == [migration EXCEPT !.subjects = @ \ {x}]
       IN IF TeacherSubjectAssignment_teacherClassAssignmentId_subjectId_key(
               teacherSubjectAssignment, migration.caId, x)
          THEN /\ teacherSubjectAssignment' = teacherSubjectAssignment \cup {row}
               /\ nextId' = nextId + 1
               /\ migration' = MigrationContinues(m, teacherCampus, teacherClassAssignment,
                                                  teacherSubjectAssignment')
          ELSE /\ migration' = MigrationThrows(migration, teacherCampus,
                                  teacherClassAssignment, teacherSubjectAssignment)
               /\ UNCHANGED <<teacherSubjectAssignment, nextId>>
  /\ UNCHANGED <<teacherCampus, teacherClassAssignment,
                 studentCampus, class, call, pre, last,
                 teacherAssignment, teacherSubject, form, outbox>>

NextMigration ==
  \/ migrateTeacherData
  \/ migrateTeacherData_assignments
  \/ migrateTeacherData_insertCampus
  \/ migrateTeacherData_insertClass
  \/ migrateTeacherData_insertSubject

SpecMigration == InitMigration /\ [][NextMigration]_vars


\* ------------------------------------------------ TeacherForm.tsx
\* The mutations the success callback of updateTeacher fires for teacher t,
\* given the selection and the teacherCampuses the form's query holds.
FiredMutations(t, campusIds, primaryCampusId, teacherCampuses) ==
  IF campusIds = {} THEN {}
  ELSE
    {[op |-> "CTS.assignTeacherToCampus", teacherId |-> t, campusId |-> c,
      isPrimary |-> (c = primaryCampusId)] :
       c \in {x \in campusIds : ~\E tc \in teacherCampuses : tc.campusId = x}}
    \cup
    {[op |-> "CTS.setPrimaryCampus", teacherId |-> t, campusId |-> c,
      isPrimary |-> Idle.isPrimary] :
       c \in {x \in campusIds : \E tc \in teacherCampuses :
                                  /\ tc.campusId = x
                                  /\ tc.isPrimary # (x = primaryCampusId)}}
    \cup
    {[op |-> "CTS.removeTeacherFromCampus", teacherId |-> t, campusId |-> tc.campusId,
      isPrimary |-> Idle.isPrimary] :
       tc \in {x \in teacherCampuses : x.campusId \notin campusIds}}

\* updateTeacher succeeded for the form user u saved for teacher t: the callback
\* fires its mutations, none awaited.  teacherCampuses is what getTeacherCampuses
\* answers: getCampusesForTeacher without includeInactive.
updateTeacher_onSuccess(u, t, campusIds, primaryCampusId) ==
  LET teacherCampuses == CampusesForTeacher(teacherCampus, t, FALSE)
      fired == FiredMutations(t, campusIds, primaryCampusId, teacherCampuses)
  IN /\ ~form.saved /\ Quiescent
     /\ Cardinality(fired) <= NumSlots
     /\ form' = [saved |-> TRUE, user |-> u, teacherId |-> t, campusIds |-> campusIds,
                 primaryCampusId |-> primaryCampusId, teacherCampuses |-> teacherCampuses,
                 fired |-> Cardinality(fired), failed |-> FALSE]
     /\ outbox' = fired
     /\ UNCHANGED <<teacherCampus, teacherClassAssignment, teacherSubjectAssignment,
                    studentCampus, class, nextId, call, pre, last,
                    teacherAssignment, teacherSubject, migration>>

\* A fired mutation reaches its endpoint, which calls the service as the
\* session user.
TeacherForm_mutate(s) ==
  /\ form.saved
  /\ \E m \in outbox :
       \/ /\ m.op = "CTS.assignTeacherToCampus"
          /\ CampusTeacherService_assignTeacherToCampus(s, form.user, m.campusId,
                                                        m.teacherId, m.isPrimary)
       \/ /\ m.op = "CTS.setPrimaryCampus"
          /\ CampusTeacherService_setPrimaryCampus(s, form.user, m.teacherId, m.campusId)
       \/ /\ m.op = "CTS.removeTeacherFromCampus"
          /\ CampusTeacherService_removeTeacherFromCampus(s, form.user, m.campusId,
                                                          m.teacherId)

\* A mutation settles: onError shows a toast for a failure, a success has no
\* callback.
TeacherForm_settled(s) ==
  /\ form.saved /\ call[s].pc = "done"
  /\ call' = [call EXCEPT ![s] = Idle]
  /\ pre' = [pre EXCEPT ![s] = NoSnapshot]
  /\ form' = [form EXCEPT !.failed = @ \/ call[s].result # "OK"]
  /\ UNCHANGED <<teacherCampus, teacherClassAssignment, teacherSubjectAssignment,
                 studentCampus, class, nextId, last,
                 teacherAssignment, teacherSubject, migration, outbox>>


\* ------------------------------------------------------------ specifications
\* The lists a caller can pass as subjectIds.
SubjectIdLists ==
  UNION {[1..n -> SubjectIds] : n \in 0..MaxSubjectIds}

ClassIds == 1..(MaxClasses + 1)

\* The teacher tables and StudentCampus share no statement and no method reads
\* both: a run of calls is followed on one of the two families at a time.
TeacherFamily == studentCampus = {}
StudentFamily == teacherCampus = {}

\* The campus-level calls of the three services.
StartCampusCall(s) ==
  \/ \E u \in Users, c \in CampusIds, t \in TeacherIds, b \in BOOLEAN :
       TeacherFamily /\ CampusTeacherService_assignTeacherToCampus(s, u, c, t, b)
  \/ \E u \in Users, c \in CampusIds, t \in TeacherIds :
       TeacherFamily /\ CampusTeacherService_removeTeacherFromCampus(s, u, c, t)
  \/ \E u \in Users, c \in CampusIds, t \in TeacherIds, st \in Statuses :
       TeacherFamily /\ CampusTeacherService_updateTeacherCampusStatus(s, u, c, t, st)
  \/ \E u \in Users, c \in CampusIds, t \in TeacherIds :
       TeacherFamily /\ CampusTeacherService_setPrimaryCampus(s, u, t, c)
  \/ \E c \in CampusIds, t \in TeacherIds, b \in BOOLEAN, st \in Statuses :
       TeacherFamily /\ TeacherCampusService_assignTeacherToCampus(s, t, c, b, st)
  \/ \E id \in Ids, st \in Statuses :
       TeacherFamily /\ TeacherCampusService_updateAssignmentStatus(s, id, st)
  \/ \E c \in CampusIds, t \in TeacherIds :
       TeacherFamily /\ TeacherCampusService_removeTeacherFromCampus(s, t, c)
  \/ \E u \in Users, c \in CampusIds, p \in StudentIds, b \in BOOLEAN :
       StudentFamily /\ CampusStudentService_assignStudentToCampus(s, u, c, p, b)
  \/ \E u \in Users, c \in CampusIds, p \in StudentIds :
       StudentFamily /\ CampusStudentService_removeStudentFromCampus(s, u, c, p)
  \/ \E u \in Users, c \in CampusIds, p \in StudentIds, st \in Statuses :
       StudentFamily /\ CampusStudentService_updateStudentCampusStatus(s, u, c, p, st)
  \/ \E u \in Users, c \in CampusIds, p \in StudentIds :
       StudentFamily /\ CampusStudentService_setPrimaryCampus(s, u, p, c)

StepCampusCall(s) ==
  \/ CampusTeacherService_assignTeacherToCampus_unset(s)
  \/ CampusTeacherService_assignTeacherToCampus_insert(s)
  \/ CampusTeacherService_removeTeacherFromCampus_delete(s)
  \/ CampusTeacherService_updateTeacherCampusStatus_update(s)
  \/ CampusTeacherService_setPrimaryCampus_unset(s)
  \/ CampusTeacherService_setPrimaryCampus_set(s)
  \/ TeacherCampusService_assignTeacherToCampus_unset(s)
  \/ TeacherCampusService_assignTeacherToCampus_insert(s)
  \/ TeacherCampusService_removeTeacherFromCampus_transaction(s)
  \/ CampusStudentService_assignStudentToCampus_unset(s)
  \/ CampusStudentService_assignStudentToCampus_create(s)
  \/ CampusStudentService_setPrimaryCampus_update(s)
  \/ Return(s)

\* Calls executed one at a time: a call starts when no call is in flight.
Next ==
  \/ Quiescent /\ StartCampusCall(1)
  \/ StepCampusCall(1)

Spec == Init /\ [][Next]_vars

\* The class-level calls, on campus assignments created plain (not primary,
\* ACTIVE) by TeacherCampusService.
TeacherCampusIds == 1..(MaxCampusRows + 1)

StartClassCall(s) ==
  \/ \E c \in Campuses, t \in Teachers :
       TeacherCampusService_assignTeacherToCampus(s, t, c, FALSE, "ACTIVE")
  \/ \E c \in CampusIds, g \in ClassGroupIds, n \in Names : createClass(s, c, g, n)
  \/ \E c \in CampusIds, g \in ClassGroupIds, n \in Names :
       createClassFromTemplate(s, c, g, n)
  \/ \E id \in TeacherCampusIds, k \in ClassIds, l \in SubjectIdLists :
       TeacherCampusService_assignTeacherToClass(s, id, k, l)
  \/ \E c \in Campuses, t \in Teachers :
       TeacherCampusService_removeTeacherFromCampus(s, t, c)
  \/ \E c \in Campuses, t \in Teachers :
       CampusTeacherService_removeTeacherFromCampus(s, "admin", c, t)

StepClassCall(s) ==
  \/ TeacherCampusService_assignTeacherToCampus_insert(s)
  \/ createClass_create(s)
  \/ TeacherCampusService_assignTeacherToClass_class(s)
  \/ TeacherCampusService_assignTeacherToClass_insertClass(s)
  \/ TeacherCampusService_assignTeacherToClass_insertSubject(s)
  \/ TeacherCampusService_removeTeacherFromCampus_transaction(s)
  \/ CampusTeacherService_removeTeacherFromCampus_delete(s)
  \/ Return(s)

NextClass ==
  \/ Quiescent /\ StartClassCall(1)
  \/ StepClassCall(1)

SpecClass == Init /\ [][NextClass]_vars

\* Calls of one person's campus assignments running together: each request
\* handler awaits its statements one by one and the statements of the calls in
\* flight interleave freely.
StartConcurrentCall(s) ==
  \/ \E c \in Campuses, b \in BOOLEAN :
       TeacherFamily /\ TeacherCampusService_assignTeacherToCampus(s, "T1", c, b, "ACTIVE")
  \/ \E c \in Campuses, b \in BOOLEAN :
       TeacherFamily /\ CampusTeacherService_assignTeacherToCampus(s, "admin", c, "T1", b)
  \/ \E c \in Campuses :
       TeacherFamily /\ CampusTeacherService_setPrimaryCampus(s, "admin", "T1", c)
  \/ \E c \in Campuses :
       TeacherFamily /\ CampusTeacherService_removeTeacherFromCampus(s, "admin", c, "T1")
  \/ \E b \in BOOLEAN :
       TeacherFamily /\ CampusTeacherService_getCampusesForTeacher(s, "admin", "T1", b)
  \/ \E c \in Campuses, b \in BOOLEAN :
       StudentFamily /\ CampusStudentService_assignStudentToCampus(s, "admin", c, "P1", b)
  \/ \E c \in Campuses :
       StudentFamily /\ CampusStudentService_setPrimaryCampus(s, "admin", "P1", c)

StepConcurrentCall(s) ==
  \/ TeacherCampusService_assignTeacherToCampus_unset(s)
  \/ TeacherCampusService_assignTeacherToCampus_insert(s)
  \/ CampusTeacherService_assignTeacherToCampus_unset(s)
  \/ CampusTeacherService_assignTeacherToCampus_insert(s)
  \/ CampusTeacherService_setPrimaryCampus_unset(s)
  \/ CampusTeacherService_setPrimaryCampus_set(s)
  \/ CampusTeacherService_removeTeacherFromCampus_delete(s)
  \/ CampusStudentService_assignStudentToCampus_unset(s)
  \/ CampusStudentService_assignStudentToCampus_create(s)
  \/ CampusStudentService_setPrimaryCampus_update(s)
  \/ Return(s)

NextConcurrent ==
  \E s \in Slots : StartConcurrentCall(s) \/ StepConcurrentCall(s)

\* setPrimaryCampus calls, repeated ones among them, on the campus assignments
\* of every status, one call at a time.
StartSetPrimaryCall(s) ==
  \/ \E c \in Campuses, t \in Teachers, b \in BOOLEAN, st \in Statuses :
       TeacherFamily /\ TeacherCampusService_assignTeacherToCampus(s, t, c, b, st)
  \/ \E u \in Users, c \in CampusIds, t \in TeacherIds :
       TeacherFamily /\ CampusTeacherService_setPrimaryCampus(s, u, t, c)
  \/ \E u \in Users, c \in Campuses, p \in Students, b \in BOOLEAN :
       StudentFamily /\ CampusStudentService_assignStudentToCampus(s, u, c, p, b)
  \/ \E u \in Users, c \in Campuses, p \in Students, st \in Statuses :
       StudentFamily /\ CampusStudentService_updateStudentCampusStatus(s, u, c, p, st)
  \/ \E u \in Users, c \in CampusIds, p \in StudentIds :
       StudentFamily /\ CampusStudentService_setPrimaryCampus(s, u, p, c)

StepSetPrimaryCall(s) ==
  \/ TeacherCampusService_assignTeacherToCampus_unset(s)
  \/ TeacherCampusService_assignTeacherToCampus_insert(s)
  \/ CampusTeacherService_setPrimaryCampus_unset(s)
  \/ CampusTeacherService_setPrimaryCampus_set(s)
  \/ CampusStudentService_assignStudentToCampus_unset(s)
  \/ CampusStudentService_assignStudentToCampus_create(s)
  \/ CampusStudentService_setPrimaryCampus_update(s)
  \/ Return(s)
  \/ ReturnOfSetPrimary(s)

NextSetPrimary ==
  \/ Quiescent /\ StartSetPrimaryCall(1)
  \/ StepSetPrimaryCall(1)

SpecSetPrimary == Init /\ [][NextSetPrimary]_vars

\* Removals among campus assignments that carry primary flags and class and
\* subject assignments, one call at a time.
StartRemoveCall(s) ==
  \/ \E c \in Campuses, t \in Teachers, b \in BOOLEAN :
       TeacherFamily /\ TeacherCampusService_assignTeacherToCampus(s, t, c, b, "ACTIVE")
  \/ \E c \in Campuses : createClass(s, c, "G1", "A")
  \/ \E id \in TeacherCampusIds, k \in ClassIds, l \in {<<>>, <<"S1">>} :
       TeacherCampusService_assignTeacherToClass(s, id, k, l)
  \/ \E c \in CampusIds, t \in Teachers :
       TeacherCampusService_removeTeacherFromCampus(s, t, c)
  \/ \E u \in Users, c \in CampusIds, t \in Teachers :
       CampusTeacherService_removeTeacherFromCampus(s, u, c, t)
  \/ \E c \in Campuses, p \in Students, b \in BOOLEAN :
       StudentFamily /\ CampusStudentService_assignStudentToCampus(s, "admin", c, p, b)
  \/ \E u \in Users, c \in CampusIds, p \in Students :
       StudentFamily /\ CampusStudentService_removeStudentFromCampus(s, u, c, p)

StepRemoveCall(s) ==
  \/ TeacherCampusService_assignTeacherToCampus_unset(s)
  \/ TeacherCampusService_assignTeacherToCampus_insert(s)
  \/ createClass_create(s)
  \/ TeacherCampusService_assignTeacherToClass_class(s)
  \/ TeacherCampusService_assignTeacherToClass_insertClass(s)
  \/ TeacherCampusService_assignTeacherToClass_insertSubject(s)
  \/ TeacherCampusService_removeTeacherFromCampus_transaction(s)
  \/ CampusTeacherService_removeTeacherFromCampus_delete(s)
  \/ CampusStudentService_assignStudentToCampus_unset(s)
  \/ CampusStudentService_assignStudentToCampus_create(s)
  \/ Return(s)

NextRemove ==
  \/ Quiescent /\ StartRemoveCall(1)
  \/ StepRemoveCall(1)

SpecRemove == Init /\ [][NextRemove]_vars

\* Status updates among campus assignments that carry primary flags and class
\* and subject assignments, one call at a time.
StartStatusCall(s) ==
  \/ \E c \in Campuses, b \in BOOLEAN :
       TeacherFamily /\ TeacherCampusService_assignTeacherToCampus(s, "T1", c, b, "ACTIVE")
  \/ \E c \in Campuses : createClass(s, c, "G1", "A")
  \/ \E id \in TeacherCampusIds, k \in ClassIds, l \in {<<>>, <<"S1">>} :
       TeacherCampusService_assignTeacherToClass(s, id, k, l)
  \/ \E u \in Users, c \in CampusIds, t \in Teachers, st \in Statuses :
       CampusTeacherService_updateTeacherCampusStatus(s, u, c, t, st)
  \/ \E id \in TeacherCampusIds, st \in Statuses :
       TeacherFamily /\ TeacherCampusService_updateAssignmentStatus(s, id, st)
  \/ \E c \in Campuses, p \in Students, b \in BOOLEAN :
       StudentFamily /\ CampusStudentService_assignStudentToCampus(s, "admin", c, p, b)
  \/ \E u \in Users, c \in CampusIds, p \in Students, st \in Statuses :
       StudentFamily /\ CampusStudentService_updateStudentCampusStatus(s, u, c, p, st)

StepStatusCall(s) ==
  \/ TeacherCampusService_assignTeacherToCampus_unset(s)
  \/ TeacherCampusService_assignTeacherToCampus_insert(s)
  \/ createClass_create(s)
  \/ TeacherCampusService_assignTeacherToClass_class(s)
  \/ TeacherCampusService_assignTeacherToClass_insertClass(s)
  \/ TeacherCampusService_assignTeacherToClass_insertSubject(s)
  \/ CampusTeacherService_updateTeacherCampusStatus_update(s)
  \/ CampusStudentService_assignStudentToCampus_unset(s)
  \/ CampusStudentService_assignStudentToCampus_create(s)
  \/ Return(s)

NextStatus ==
  \/ Quiescent /\ StartStatusCall(1)
  \/ StepStatusCall(1)

SpecStatus == Init /\ [][NextStatus]_vars

SpecConcurrent == Init /\ [][NextConcurrent]_vars

\* A teacher gets campus assignments, one call at a time; then the TeacherForm
\* is saved for the teacher and the mutations it fires run together.
StartFormCall(s) ==
  \E c \in Campuses, b \in BOOLEAN, st \in {"ACTIVE", "INACTIVE"} :
    ~form.saved /\ TeacherCampusService_assignTeacherToCampus(s, "T1", c, b, st)

StepFormCall(s) ==
  \/ TeacherCampusService_assignTeacherToCampus_unset(s)
  \/ TeacherCampusService_assignTeacherToCampus_insert(s)
  \/ ~form.saved /\ Return(s)
  \/ TeacherForm_mutate(s)
  \/ CampusTeacherService_assignTeacherToCampus_unset(s)
  \/ CampusTeacherService_assignTeacherToCampus_insert(s)
  \/ CampusTeacherService_setPrimaryCampus_unset(s)
  \/ CampusTeacherService_setPrimaryCampus_set(s)
  \/ CampusTeacherService_removeTeacherFromCampus_delete(s)
  \/ TeacherForm_settled(s)

NextForm ==
  \/ Quiescent /\ StartFormCall(1)
  \/ \E u \in {"super", "admin"}, campusIds \in SUBSET Campuses,
        primaryCampusId \in Campuses \cup {"-"} :
       updateTeacher_onSuccess(u, "T1", campusIds, primaryCampusId)
  \/ \E s \in Slots : StepFormCall(s)

SpecForm == Init /\ [][NextForm]_vars

\* The permission-guarded operations, called by every user for existing and
\* missing persons, campuses and assignments, one call at a time.
StartGuardedCall(s) ==
  \/ \E c \in Campuses, b \in BOOLEAN :
       TeacherFamily /\ TeacherCampusService_assignTeacherToCampus(s, "T1", c, b, "ACTIVE")
  \/ \E u \in Users, c \in CampusIds, t \in TeacherIds, b \in BOOLEAN :
       TeacherFamily /\ CampusTeacherService_assignTeacherToCampus(s, u, c, t, b)
  \/ \E u \in Users, c \in CampusIds, t \in TeacherIds :
       TeacherFamily /\ CampusTeacherService_removeTeacherFromCampus(s, u, c, t)
  \/ \E u \in Users, c \in CampusIds, t \in TeacherIds, st \in Statuses :
       TeacherFamily /\ CampusTeacherService_updateTeacherCampusStatus(s, u, c, t, st)
  \/ \E u \in Users, c \in CampusIds, i \in BOOLEAN :
       TeacherFamily /\ CampusTeacherService_getTeachersForCampus(s, u, c, i)
  \/ \E u \in Users, c \in CampusIds, p \in StudentIds, b \in BOOLEAN :
       StudentFamily /\ CampusStudentService_assignStudentToCampus(s, u, c, p, b)
  \/ \E u \in Users, c \in CampusIds, p \in StudentIds :
       StudentFamily /\ CampusStudentService_removeStudentFromCampus(s, u, c, p)
  \/ \E u \in Users, c \in CampusIds, p \in StudentIds, st \in Statuses :
       StudentFamily /\ CampusStudentService_updateStudentCampusStatus(s, u, c, p, st)
  \/ \E u \in Users, c \in CampusIds, i \in BOOLEAN :
       StudentFamily /\ CampusStudentService_getStudentsForCampus(s, u, c, i)

StepGuardedCall(s) ==
  \/ TeacherCampusService_assignTeacherToCampus_unset(s)
  \/ TeacherCampusService_assignTeacherToCampus_insert(s)
  \/ CampusTeacherService_assignTeacherToCampus_unset(s)
  \/ CampusTeacherService_assignTeacherToCampus_insert(s)
  \/ CampusTeacherService_removeTeacherFromCampus_delete(s)
  \/ CampusTeacherService_updateTeacherCampusStatus_update(s)
  \/ CampusStudentService_assignStudentToCampus_unset(s)
  \/ CampusStudentService_assignStudentToCampus_create(s)
  \/ Return(s)

NextGuarded ==
  \/ Quiescent /\ StartGuardedCall(1)
  \/ StepGuardedCall(1)

SpecGuarded == Init /\ [][NextGuarded]_vars

\* Assign calls racing for the campus assignments of one person: the existence
\* checks and the inserts of the calls in flight interleave freely.
StartAssignCall(s) ==
  \/ \E c \in Campuses, b \in BOOLEAN :
       TeacherFamily /\ TeacherCampusService_assignTeacherToCampus(s, "T1", c, b, "ACTIVE")
  \/ \E c \in Campuses, b \in BOOLEAN :
       TeacherFamily /\ CampusTeacherService_assignTeacherToCampus(s, "admin", c, "T1", b)
  \/ \E c \in Campuses, b \in BOOLEAN :
       StudentFamily /\ CampusStudentService_assignStudentToCampus(s, "admin", c, "P1", b)

StepAssignCall(s) ==
  \/ TeacherCampusService_assignTeacherToCampus_unset(s)
  \/ TeacherCampusService_assignTeacherToCampus_insert(s)
  \/ CampusTeacherService_assignTeacherToCampus_unset(s)
  \/ CampusTeacherService_assignTeacherToCampus_insert(s)
  \/ CampusStudentService_assignStudentToCampus_unset(s)
  \/ CampusStudentService_assignStudentToCampus_create(s)
  \/ Return(s)

NextAssignRace ==
  \E s \in Slots : StartAssignCall(s) \/ StepAssignCall(s)

SpecAssignRace == Init /\ [][NextAssignRace]_vars

\* ------------------------------------------------------------------ claims
TeacherRows(rows, t) == {r \in rows : r.teacherId = t}
StudentRows(rows, p) == {r \in rows : r.studentId = p}
ActivePrimary(rows) == {r \in rows : r.isPrimary /\ r.status = "ACTIVE"}
Primary(rows) == {r \in rows : r.isPrimary}
Done(s) == call[s].pc = "done"
Failed(s) == Done(s) /\ call[s].result # "OK"

\* C1: with calls executed one at a time, every person has at most one ACTIVE
\* campus assignment with isPrimary = true, in every state, the states between
\* the statements of a call included.
C1_AtMostOnePrimary ==
  /\ \A t \in Teachers :
       Cardinality(ActivePrimary(TeacherRows(teacherCampus, t))) <= 1
  /\ \A p \in Students :
       Cardinality(ActivePrimary(StudentRows(studentCampus, p))) <= 1

\* C1 witness: setPrimaryCampus has moved the primary flag of a teacher with
\* two ACTIVE assignments from one campus to the other.
C1_Witness ==
  /\ call[1].op = "CTS.setPrimaryCampus" /\ Done(1) /\ call[1].result = "OK"
  /\ \E r1, r2 \in TeacherRows(teacherCampus, call[1].person) :
       /\ r1.campusId = call[1].campus /\ r1.isPrimary /\ r1.status = "ACTIVE"
       /\ r2.id # r1.id /\ ~r2.isPrimary /\ r2.status = "ACTIVE"
       /\ \E q \in pre[1][1] : q.id = r2.id /\ q.isPrimary

\* C8: a call that returns an error leaves the assignment tables as they were
\* when it began.
C8_FailureIsAtomic ==
  \A s \in Slots : Failed(s) => db = pre[s]

\* The (person, campus) pair of the assign call in slot s had a row when the
\* call began, and the caller passes the method's permission guard.
AssignOfExistingPair(s) ==
  \/ /\ call[s].op = "CTS.assignTeacherToCampus"
     /\ isSuperAdmin(call[s].user)
          \/ hasPermission(call[s].user, call[s].campus, "MANAGE_CAMPUS_TEACHERS")
     /\ \E r \in pre[s][1] : r.teacherId = call[s].person /\ r.campusId = call[s].campus
  \/ /\ call[s].op = "TCS.assignTeacherToCampus"
     /\ \E r \in pre[s][1] : r.teacherId = call[s].person /\ r.campusId = call[s].campus
  \/ /\ call[s].op = "CSS.assignStudentToCampus"
     /\ hasPermission(call[s].user, call[s].campus, "MANAGE_CAMPUS_STUDENTS")
     /\ \E r \in pre[s][4] : r.studentId = call[s].person /\ r.campusId = call[s].campus

\* C9: assigning a person to a campus the person is already assigned to fails
\* with CONFLICT and leaves every row as it was, whatever isPrimary was asked.
C9_ConflictOnExistingPair ==
  \A s \in Slots :
    Done(s) /\ AssignOfExistingPair(s) => call[s].result = "CONFLICT" /\ db = pre[s]

\* C9 witness: an assign call with isPrimary = true was refused with CONFLICT
\* while another campus holds the person's primary flag.
C9_Witness ==
  /\ Done(1) /\ AssignOfExistingPair(1) /\ call[1].isPrimary
  /\ call[1].op = "TCS.assignTeacherToCampus"
  /\ \E r \in teacherCampus :
       r.teacherId = call[1].person /\ r.campusId # call[1].campus /\ r.isPrimary

\* The caller of the assign call in slot s holds neither the campus-scoped
\* permission at the target campus nor the super-admin role.
AssignWithoutPermission(s) ==
  /\ ~isSuperAdmin(call[s].user)
  /\ \/ /\ call[s].op = "CTS.assignTeacherToCampus"
        /\ ~hasPermission(call[s].user, call[s].campus, "MANAGE_CAMPUS_TEACHERS")
     \/ /\ call[s].op = "CSS.assignStudentToCampus"
        /\ ~hasPermission(call[s].user, call[s].campus, "MANAGE_CAMPUS_STUDENTS")

\* C10: an assign call by an actor without the permission at the target campus
\* (and without the super-admin role) fails with FORBIDDEN and leaves every row
\* as it was.
C10_ForbiddenWithoutPermission ==
  \A s \in Slots :
    Done(s) /\ AssignWithoutPermission(s) => call[s].result = "FORBIDDEN" /\ db = pre[s]

\* C10 witness: "guest" asked to make an unassigned campus the primary campus
\* of a teacher who has a primary campus, and was refused.
C10_Witness ==
  /\ Done(1) /\ AssignWithoutPermission(1) /\ call[1].result = "FORBIDDEN"
  /\ call[1].op = "CTS.assignTeacherToCampus" /\ call[1].isPrimary
  /\ call[1].person \in Teachers /\ call[1].campus \in Campuses
  /\ ~ \E r \in teacherCampus :
         r.teacherId = call[1].person /\ r.campusId = call[1].campus
  /\ \E r \in teacherCampus : r.teacherId = call[1].person /\ r.isPrimary

\* C2: a getCampusesForTeacher call that reads while a setPrimaryCampus call
\* for the same teacher, who had a primary campus, is between its statements
\* sees exactly one primary assignment (read with includeInactive, so that the
\* status of the rows hides none).
C2_ReaderSeesOnePrimary ==
  \A s \in Slots :
    /\ call[s].op = "CTS.getCampusesForTeacher" /\ Done(s) /\ call[s].result = "OK"
    /\ call[s].racing /\ call[s].includeInactive
    => Cardinality({v \in call[s].view : v.isPrimary}) = 1

\* C3: once two setPrimaryCampus calls for one person and two different
\* campuses have both returned successfully, the person has exactly one
\* primary assignment.
C3_ConcurrentSetPrimarySerialize ==
  \A s1, s2 \in Slots :
    /\ s1 # s2 /\ Done(s1) /\ Done(s2)
    /\ call[s1].result = "OK" /\ call[s2].result = "OK"
    /\ call[s1].op = call[s2].op
    /\ call[s1].op \in {"CTS.setPrimaryCampus", "CSS.setPrimaryCampus"}
    /\ call[s1].person = call[s2].person /\ call[s1].campus # call[s2].campus
    => IF call[s1].op = "CTS.setPrimaryCampus"
       THEN Cardinality(Primary(TeacherRows(teacherCampus, call[s1].person))) = 1
       ELSE Cardinality(Primary(StudentRows(studentCampus, call[s1].person))) = 1

\* C4: every class assignment links a class and a campus assignment of the
\* same campus: class.campusId = teacherCampus.campusId.
C4_ClassAssignmentSameCampus ==
  \A a \in teacherClassAssignment :
    \A k \in class, r \in teacherCampus :
      k.id = a.classId /\ r.id = a.teacherCampusId => k.campusId = r.campusId

\* C5: no two campus assignment rows share their (person, campus) pair, also
\* when the existence checks and the inserts of two assign calls interleave.
C5_UniquePair ==
  /\ \A r1, r2 \in teacherCampus :
       r1.teacherId = r2.teacherId /\ r1.campusId = r2.campusId => r1 = r2
  /\ \A r1, r2 \in studentCampus :
       r1.studentId = r2.studentId /\ r1.campusId = r2.campusId => r1 = r2

\* C5 witness: two assign calls for one pair both passed the existence check;
\* one inserted the row and the insert of the other was rejected.
C5_Witness ==
  \E s1, s2 \in Slots :
    /\ s1 # s2 /\ Done(s1) /\ Done(s2)
    /\ call[s1].op = "TCS.assignTeacherToCampus" /\ call[s2].op = call[s1].op
    /\ call[s1].person = call[s2].person /\ call[s1].campus = call[s2].campus
    /\ call[s1].result = "OK" /\ call[s2].result = "INTERNAL_SERVER_ERROR"

RemoveOps == {"CTS.removeTeacherFromCampus", "TCS.removeTeacherFromCampus"}

\* The TeacherCampus rows the remove call in slot s found when it began.
RemovedRows(s) ==
  {r \in pre[s][1] : r.teacherId = call[s].person /\ r.campusId = call[s].campus}

\* C6: every class assignment has its campus assignment and every subject
\* assignment has its class assignment; after a successful remove the removed
\* campus assignment is gone and no class assignment refers to it.
C6_NoOrphans ==
  /\ \A a \in teacherClassAssignment : \E r \in teacherCampus : r.id = a.teacherCampusId
  /\ \A x \in teacherSubjectAssignment :
       \E a \in teacherClassAssignment : a.id = x.teacherClassAssignmentId
  /\ \A s \in Slots :
       Done(s) /\ call[s].op \in RemoveOps /\ call[s].result = "OK"
       => \A r \in RemovedRows(s) :
            /\ r \notin teacherCampus
            /\ ~ \E a \in teacherClassAssignment : a.teacherCampusId = r.id

\* C6 witness: CampusTeacherService.removeTeacherFromCampus removed a campus
\* assignment that had a class assignment with a subject assignment.
C6_Witness ==
  /\ Done(1) /\ call[1].op = "CTS.removeTeacherFromCampus" /\ call[1].result = "OK"
  /\ \E r \in RemovedRows(1) :
       \E a \in pre[1][2] :
         /\ a.teacherCampusId = r.id
         /\ \E x \in pre[1][3] : x.teacherClassAssignmentId = a.id

\* The subjects of the list l.
Range(l) == {l[j] : j \in 1..Len(l)}

\* C7: assignTeacherToClass attaches all the requested subjects or none: when
\* it fails, neither the class assignment nor any subject assignment of the
\* call exists; when it succeeds every requested subject is attached.
C7_SubjectsAllOrNothing ==
  \A s \in Slots :
    Done(s) /\ call[s].op = "TCS.assignTeacherToClass"
    => IF call[s].result = "OK"
       THEN \A sub \in Range(call[s].subjectIds) :
              \E x \in teacherSubjectAssignment :
                x.teacherClassAssignmentId = call[s].caId /\ x.subjectId = sub
       ELSE /\ teacherClassAssignment = pre[s][2]
            /\ teacherSubjectAssignment = pre[s][3]

\* The Class row the assignTeacherToClass call in slot s names, as a set.
ClassOfCall(s) == {k \in class : k.id = call[s].classId}

\* The assignTeacherToClass call in slot s found its campus assignment and its
\* class.
ResolvedClassCall(s) ==
  /\ call[s].op = "TCS.assignTeacherToClass"
  /\ \E r \in pre[s][1] : r.id = call[s].id
  /\ ClassOfCall(s) # {}

\* C11: assignTeacherToClass for a class whose campusId differs from the
\* campusId of the campus assignment fails with BAD_REQUEST and creates no class
\* assignment and no subject assignment.
C11_BadRequestOnCampusMismatch ==
  \A s \in Slots :
    /\ Done(s) /\ ResolvedClassCall(s)
    /\ \E k \in ClassOfCall(s) : k.campusId # call[s].campus
    => /\ call[s].result = "BAD_REQUEST"
       /\ teacherClassAssignment = pre[s][2]
       /\ teacherSubjectAssignment = pre[s][3]

\* C12: assignTeacherToClass for a (teacherCampusId, classId) pair that has a
\* class assignment fails with CONFLICT, and no two class assignments share
\* their (teacherCampusId, classId) pair.
C12_ConflictOnDuplicateClassAssignment ==
  /\ \A a1, a2 \in teacherClassAssignment :
       a1.teacherCampusId = a2.teacherCampusId /\ a1.classId = a2.classId => a1 = a2
  /\ \A s \in Slots :
       /\ Done(s) /\ ResolvedClassCall(s)
       /\ \E a \in pre[s][2] :
            a.teacherCampusId = call[s].id /\ a.classId = call[s].classId
       => call[s].result = "CONFLICT"

\* The subject assignments under class assignment caId.
SubjectRows(caId) ==
  {x \in teacherSubjectAssignment : x.teacherClassAssignmentId = caId}

\* C13: a subjectIds list of existing subjects that names a subject more than
\* once is attached like the list without the repetitions: the call succeeds
\* and the class assignment has exactly one subject assignment per distinct
\* subject.
C13_DuplicateSubjectsDeduplicated ==
  \A s \in Slots :
    /\ Done(s) /\ call[s].op = "TCS.assignTeacherToClass" /\ call[s].caId # 0
    /\ Range(call[s].subjectIds) \subseteq Subjects
    /\ Len(call[s].subjectIds) > Cardinality(Range(call[s].subjectIds))
    => /\ call[s].result = "OK"
       /\ {x.subjectId : x \in SubjectRows(call[s].caId)} = Range(call[s].subjectIds)
       /\ Cardinality(SubjectRows(call[s].caId)) = Cardinality(Range(call[s].subjectIds))

\* The setPrimaryCampus call in slot s repeats, with the same arguments, the
\* call that returned just before it began.
RepeatsLastCall(s) ==
  /\ call[s].op \in SetPrimaryOps
  /\ last.op = call[s].op /\ last.user = call[s].user
  /\ last.person = call[s].person /\ last.campus = call[s].campus

HadActiveAssignment(s) ==
  IF call[s].op = "CTS.setPrimaryCampus"
  THEN \E r \in pre[s][1] : /\ r.teacherId = call[s].person /\ r.campusId = call[s].campus
                            /\ r.status = "ACTIVE"
  ELSE \E r \in pre[s][4] : /\ r.studentId = call[s].person /\ r.campusId = call[s].campus
                            /\ r.status = "ACTIVE"

\* The caller of the setPrimaryCampus call in slot s passes the method's
\* permission guard (CampusTeacherService.setPrimaryCampus has none).
MaySetPrimary(s) ==
  call[s].op = "CSS.setPrimaryCampus"
    => hasPermission(call[s].user, call[s].campus, "MANAGE_CAMPUS_STUDENTS")

\* C15: setPrimaryCampus fails with NOT_FOUND when the pair has no ACTIVE
\* assignment (none at all, or an INACTIVE or ARCHIVED one), and succeeds only
\* when it has one.
C15_NotFoundWithoutActiveAssignment ==
  \A s \in Slots :
    Done(s) /\ call[s].op \in SetPrimaryOps /\ MaySetPrimary(s)
    => /\ ~HadActiveAssignment(s) => call[s].result = "NOT_FOUND"
       /\ call[s].result = "OK" => HadActiveAssignment(s)

\* C16: ARCHIVED is terminal: no step changes the status of a row that is
\* ARCHIVED.
C16_ArchivedIsTerminal ==
  [][/\ \A r \in teacherCampus : \A q \in teacherCampus' :
          r.status = "ARCHIVED" /\ q.id = r.id => q.status = "ARCHIVED"
     /\ \A r \in studentCampus : \A q \in studentCampus' :
          r.status = "ARCHIVED" /\ q.id = r.id => q.status = "ARCHIVED"]_vars

\* C17: a primary assignment is ACTIVE: no INACTIVE or ARCHIVED row has
\* isPrimary = true.
C17_PrimaryIsActive ==
  /\ \A r \in teacherCampus : r.isPrimary => r.status = "ACTIVE"
  /\ \A r \in studentCampus : r.isPrimary => r.status = "ACTIVE"

\* The rows of the assignment tables outside the subtree of the pair the remove
\* call in slot s names, in the tables d.
OutsideRemoved(s, d) ==
  LET tc  == {r \in d[1] : ~(r.teacherId = call[s].person /\ r.campusId = call[s].campus)}
      tca == {a \in d[2] : \E r \in tc : r.id = a.teacherCampusId}
      tsa == {x \in d[3] : \E a \in tca : a.id = x.teacherClassAssignmentId}
      sc  == {r \in d[4] : ~(r.studentId = call[s].person /\ r.campusId = call[s].campus)}
  IN <<tc, tca, tsa, sc>>

\* C18: a remove call changes nothing outside the subtree of the assignment it
\* removes: the other campus assignments of the person, with their isPrimary
\* flags, statuses and class and subject assignments, and the rows of every
\* other person are as they were.
C18_RemoveFrame ==
  \A s \in Slots :
    Done(s) /\ call[s].op \in RemoveOps \cup {"CSS.removeStudentFromCampus"}
    => OutsideRemoved(s, db) = OutsideRemoved(s, pre[s])

\* C18 witness: a teacher was removed from one campus while holding the primary
\* flag at another campus, where a class with a subject is assigned.
C18_Witness ==
  /\ Done(1) /\ call[1].op \in RemoveOps /\ call[1].result = "OK"
  /\ \E r \in RemovedRows(1) : r \notin teacherCampus
  /\ \E r \in teacherCampus :
       /\ r.teacherId = call[1].person /\ r.campusId # call[1].campus /\ r.isPrimary
       /\ \E a \in teacherClassAssignment :
            /\ a.teacherCampusId = r.id
            /\ \E x \in teacherSubjectAssignment : x.teacherClassAssignmentId = a.id

\* The remove call in slot s removed the primary assignment of its person.
RemovedPrimary(s) ==
  /\ Done(s) /\ call[s].result = "OK"
  /\ \/ /\ call[s].op \in RemoveOps
        /\ \E r \in RemovedRows(s) : r.isPrimary
     \/ /\ call[s].op = "CSS.removeStudentFromCampus"
        /\ \E r \in pre[s][4] : /\ r.studentId = call[s].person
                                /\ r.campusId = call[s].campus /\ r.isPrimary

\* The calls that set a primary flag when asked to.
ExplicitPrimaryOps ==
  SetPrimaryOps \cup {"CTS.assignTeacherToCampus", "TCS.assignTeacherToCampus",
                      "CSS.assignStudentToCampus"}

\* The step is a statement of a setPrimaryCampus call or of an assign call with
\* isPrimary = true for person x.
ExplicitPrimaryStep(x) ==
  \E s \in Slots :
    /\ call'[s] # call[s]
    /\ call'[s].op \in ExplicitPrimaryOps /\ call'[s].person = x
    /\ call'[s].op \in SetPrimaryOps \/ call'[s].isPrimary

\* C19: no re-election of a primary campus.  After a remove call removed the
\* primary assignment of a person the person has no primary assignment, and a
\* person without a primary assignment gets one only by a setPrimaryCampus call
\* or an assign call with isPrimary = true for that person.
C19_NoReElection ==
  /\ [](\A s \in Slots :
          RemovedPrimary(s)
          => /\ Primary(TeacherRows(teacherCampus, call[s].person)) = {}
             /\ Primary(StudentRows(studentCampus, call[s].person)) = {})
  /\ [][/\ \A t \in Teachers :
             /\ Primary(TeacherRows(teacherCampus, t)) = {}
             /\ Primary(TeacherRows(teacherCampus', t)) # {}
             => ExplicitPrimaryStep(t)
        /\ \A p \in Students :
             /\ Primary(StudentRows(studentCampus, p)) = {}
             /\ Primary(StudentRows(studentCampus', p)) # {}
             => ExplicitPrimaryStep(p)]_vars

\* C19 witness: a teacher's primary assignment was removed while the teacher
\* has an ACTIVE assignment at another campus, which is not promoted.
C19_Witness ==
  /\ RemovedPrimary(1) /\ call[1].op \in RemoveOps
  /\ \E r \in TeacherRows(teacherCampus, call[1].person) :
       r.status = "ACTIVE" /\ ~r.isPrimary

AssignOps ==
  {"CTS.assignTeacherToCampus", "TCS.assignTeacherToCampus", "CSS.assignStudentToCampus"}

\* The assign call in slot s succeeded; it was called as the operation is
\* specified, without the status override TeacherCampusService accepts.
AssignSucceeded(s) ==
  /\ Done(s) /\ call[s].op \in AssignOps /\ call[s].result = "OK"
  /\ call[s].op = "TCS.assignTeacherToCampus" => call[s].status = "ACTIVE"

\* The rows of the person of the call in slot s now, and when the call began;
\* the rows of everybody else likewise: <<now, before, others now, others before>>,
\* with personId for teacherId / studentId.
AssignView(s) ==
  IF call[s].op = "CSS.assignStudentToCampus"
  THEN <<StudentRows(studentCampus, call[s].person), StudentRows(pre[s][4], call[s].person),
         studentCampus \ StudentRows(studentCampus, call[s].person),
         pre[s][4] \ StudentRows(pre[s][4], call[s].person)>>
  ELSE <<TeacherRows(teacherCampus, call[s].person), TeacherRows(pre[s][1], call[s].person),
         teacherCampus \ TeacherRows(teacherCampus, call[s].person),
         pre[s][1] \ TeacherRows(pre[s][1], call[s].person)>>

UpdateStatusOps ==
  {"CTS.updateTeacherCampusStatus", "TCS.updateAssignmentStatus",
   "CSS.updateStudentCampusStatus"}

\* Row r is the row the status update in slot s names.
StatusTarget(s, r) ==
  CASE call[s].op = "CTS.updateTeacherCampusStatus" ->
         r.teacherId = call[s].person /\ r.campusId = call[s].campus
    [] call[s].op = "TCS.updateAssignmentStatus" -> r.id = call[s].id
    [] OTHER -> r.studentId = call[s].person /\ r.campusId = call[s].campus

\* Table `now` is table `before` but for the status of the rows the status update
\* in slot s names.
OnlyStatusChanged(s, now, before) ==
  /\ {r \in now : ~StatusTarget(s, r)} = {r \in before : ~StatusTarget(s, r)}
  /\ \A r \in before : StatusTarget(s, r) =>
       \E q \in now : q = [r EXCEPT !.status = q.status]
  /\ Cardinality(now) = Cardinality(before)

\* C21: a status update changes only the status of the row it names: no campus,
\* class or subject assignment is deleted, the isPrimary flag of the row stays,
\* and every other row is as it was.
C21_UpdateStatusFrame ==
  \A s \in Slots :
    Done(s) /\ call[s].op \in UpdateStatusOps
    => /\ teacherClassAssignment = pre[s][2]
       /\ teacherSubjectAssignment = pre[s][3]
       /\ IF call[s].op = "CSS.updateStudentCampusStatus"
          THEN teacherCampus = pre[s][1] /\ OnlyStatusChanged(s, studentCampus, pre[s][4])
          ELSE studentCampus = pre[s][4] /\ OnlyStatusChanged(s, teacherCampus, pre[s][1])

\* C21 witness: the primary assignment of a teacher, with a class and a subject
\* assigned, stopped being ACTIVE.
C21_Witness ==
  /\ Done(1) /\ call[1].op = "CTS.updateTeacherCampusStatus" /\ call[1].result = "OK"
  /\ \E r \in teacherCampus :
       /\ StatusTarget(1, r) /\ r.isPrimary /\ r.status # "ACTIVE"
       /\ \E q \in pre[1][1] : q.id = r.id /\ q.status = "ACTIVE"
       /\ \E a \in teacherClassAssignment :
            /\ a.teacherCampusId = r.id
            /\ \E x \in teacherSubjectAssignment : x.teacherClassAssignmentId = a.id

RemoveOrUpdateOps ==
  RemoveOps \cup UpdateStatusOps \cup {"CSS.removeStudentFromCampus"}

\* The call in slot s names a campus assignment that did not exist when it began.
TargetMissing(s) ==
  CASE call[s].op \in {"CTS.removeTeacherFromCampus", "TCS.removeTeacherFromCampus",
                       "CTS.updateTeacherCampusStatus"} ->
         ~\E r \in pre[s][1] :
            r.teacherId = call[s].person /\ r.campusId = call[s].campus
    [] call[s].op = "TCS.updateAssignmentStatus" ->
         ~\E r \in pre[s][1] : r.id = call[s].id
    [] OTHER ->
         ~\E r \in pre[s][4] :
            r.studentId = call[s].person /\ r.campusId = call[s].campus

\* The caller of the remove or status update in slot s passes its permission check.
MayRemoveOrUpdate(s) ==
  CASE call[s].op \in {"CTS.removeTeacherFromCampus", "CTS.updateTeacherCampusStatus"} ->
         MayManageTeacher(call[s].user, call[s].campus)
    [] call[s].op \in {"CSS.removeStudentFromCampus", "CSS.updateStudentCampusStatus"} ->
         MayManageStudent(call[s].user, call[s].campus)
    [] OTHER -> TRUE

\* C22: a remove or a status update by an authorized caller for a pair that has
\* no campus assignment fails with NOT_FOUND and changes no state, in the teacher
\* services and in the student service.
C22_NotFoundOnMissingPair ==
  \A s \in Slots :
    Done(s) /\ call[s].op \in RemoveOrUpdateOps /\ MayRemoveOrUpdate(s) /\ TargetMissing(s)
    => call[s].result = "NOT_FOUND" /\ db = pre[s]

\* C30: the authorization decisions of the teacher service agree: a caller that
\* assignTeacherToCampus does not reject at a campus (a super-admin without a
\* campus permission included) is not rejected with FORBIDDEN by
\* removeTeacherFromCampus or updateTeacherCampusStatus at that campus.
C30_GuardsAgree ==
  \A s \in Slots :
    /\ Done(s)
    /\ call[s].op \in {"CTS.removeTeacherFromCampus", "CTS.updateTeacherCampusStatus"}
    /\ MayAssignTeacher(call[s].user, call[s].campus)
    => call[s].result # "FORBIDDEN"

\* C28: once two assign calls of one service for one person and two different
\* campuses, both with isPrimary = true, have both returned, the person does not
\* have two primary assignments, however their statements interleaved.
C28_ConcurrentAssignOnePrimary ==
  \A s1, s2 \in Slots :
    /\ s1 # s2 /\ Done(s1) /\ Done(s2)
    /\ call[s1].op \in AssignOps /\ call[s1].op = call[s2].op
    /\ call[s1].person = call[s2].person /\ call[s1].campus # call[s2].campus
    /\ call[s1].isPrimary /\ call[s2].isPrimary
    => IF call[s1].op = "CSS.assignStudentToCampus"
       THEN Cardinality(Primary(StudentRows(studentCampus, call[s1].person))) <= 1
       ELSE Cardinality(Primary(TeacherRows(teacherCampus, call[s1].person))) <= 1

\* The setPrimaryCampus call in slot s completes successfully in this step.
SetPrimarySucceeds(s) ==
  /\ call[s].op \in SetPrimaryOps /\ call[s].pc # "done"
  /\ call'[s].pc = "done" /\ call'[s].result = "OK"

\* C29: when setPrimaryCampus completes successfully, reporting isPrimary = true,
\* the row of its (person, campus) pair exists and has isPrimary = true at that
\* moment, also when a removal of the pair ran between its statements.
C29_SetPrimaryReportsStoredRow ==
  [][\A s \in Slots :
       SetPrimarySucceeds(s)
       => IF call[s].op = "CTS.setPrimaryCampus"
          THEN \E r \in teacherCampus' :
                 r.teacherId = call[s].person /\ r.campusId = call[s].campus /\ r.isPrimary
          ELSE \E r \in studentCampus' :
                 r.studentId = call[s].person /\ r.campusId = call[s].campus /\ r.isPrimary]_vars

GuardedOps ==
  {"CTS.assignTeacherToCampus", "CTS.removeTeacherFromCampus",
   "CTS.updateTeacherCampusStatus", "CTS.getTeachersForCampus",
   "CSS.assignStudentToCampus", "CSS.removeStudentFromCampus",
   "CSS.updateStudentCampusStatus", "CSS.getStudentsForCampus"}

\* The caller of the guarded operation in slot s lacks the permission the
\* operation asks for (for the teacher assign: and is not a super-admin).
LacksPermission(s) ==
  /\ call[s].op \in GuardedOps
  /\ call[s].op = "CTS.assignTeacherToCampus" => ~isSuperAdmin(call[s].user)
  /\ ~hasPermission(call[s].user, call[s].campus,
                    CASE call[s].op \in {"CTS.getTeachersForCampus", "CSS.getStudentsForCampus"} ->
                           "VIEW_CAMPUS_CLASSES"
                      [] call[s].op \in {"CSS.assignStudentToCampus", "CSS.removeStudentFromCampus",
                                         "CSS.updateStudentCampusStatus"} ->
                           "MANAGE_CAMPUS_STUDENTS"
                      [] OTHER -> "MANAGE_CAMPUS_TEACHERS")

\* C23: a caller without the permission gets FORBIDDEN from every guarded
\* operation, and nothing else, whether or not the person, the campus or the
\* assignment it names exists: the answer does not depend on the stored rows.
C23_ForbiddenWhateverExists ==
  \A s \in Slots :
    Done(s) /\ LacksPermission(s) => call[s].result = "FORBIDDEN" /\ db = pre[s]

\* C23 witness: a caller without the permission asked to remove an assignment
\* that exists and got FORBIDDEN.
C23_Witness ==
  /\ Done(1) /\ LacksPermission(1) /\ call[1].op = "CTS.removeTeacherFromCampus"
  /\ call[1].result = "FORBIDDEN"
  /\ \E r \in teacherCampus :
       r.teacherId = call[1].person /\ r.campusId = call[1].campus

\* The assignment tables the migration writes.
MigratedTables == <<teacherCampus, teacherClassAssignment, teacherSubjectAssignment>>

\* C24: the teacher data migration is idempotent: a second run after a
\* successful first run ends without error and leaves the TeacherCampus,
\* TeacherClassAssignment and TeacherSubjectAssignment rows as the first run
\* left them.
C24_MigrationIdempotent ==
  migration.pc = "done" /\ migration.run = 2 /\ migration.firstResult = "OK"
  => migration.result = "OK" /\ MigratedTables = migration.first

\* C25: after the migration every teacher with a campus assignment has exactly
\* one with isPrimary = true, whatever the legacy data.
C25_MigratedOnePrimary ==
  migration.pc = "done" /\ migration.run = 1 /\ migration.result = "OK"
  => \A t \in Teachers :
       TeacherRows(teacherCampus, t) # {}
       => Cardinality(Primary(TeacherRows(teacherCampus, t))) = 1

\* The form was saved and every mutation it fired has settled.
FormSettled ==
  form.saved /\ outbox = {} /\ \A s \in Slots : call[s].pc = "idle"

\* C26: the form was saved with a primaryCampusId other than the teacher's
\* current primary campus, both campuses assigned to the teacher and selected:
\* once every mutation the callback fired has completed, in whatever order, the
\* teacher has exactly one primary campus, the selected one.
C26_FormSetsSelectedPrimary ==
  /\ FormSettled
  /\ form.primaryCampusId \in form.campusIds
  /\ \E old, new \in form.teacherCampuses :
       /\ old.isPrimary /\ old.campusId # form.primaryCampusId
       /\ old.campusId \in form.campusIds
       /\ new.campusId = form.primaryCampusId
  => {r.campusId : r \in Primary(TeacherRows(teacherCampus, form.teacherId))}
       = {form.primaryCampusId}

\* C27: the form was saved for an existing teacher and every mutation it fired
\* completed without error: the campuses assigned to the teacher are the
\* selected campusIds, for every selection, the empty one included, and also
\* when the teacher has INACTIVE assignments.
C27_FormSetsSelectedCampuses ==
  FormSettled /\ ~form.failed
  => {r.campusId : r \in TeacherRows(teacherCampus, form.teacherId)} = form.campusIds

====
